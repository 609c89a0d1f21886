----------------------------- MODULE ReceivePath -----------------------------
(***************************************************************************)
(* How the application layer of a device (a meter) receives a message: from *)
(* the SendMessage request the transport hands to C1222AL_TLMessageReceived,*)
(* through the message receiver and its segmenter, the check of the         *)
(* message's security and the device application, to the answer.           *)
(*                                                                         *)
(* The stack is single threaded and polled, and its hard case is that it is *)
(* reentrant: C1222AL_SendMessage runs the transport until it is free, and  *)
(* a message that arrives meanwhile is handled inside that wait.  The       *)
(* variable waits is the C stack of those waits, innermost last.            *)
(*                                                                         *)
(* External to this module and nondeterministic here: what the peers send,  *)
(* when the transport gets its responses, what the application decides.     *)
(***************************************************************************)
EXTENDS ReceiveSegmenter, Sequences

CONSTANTS
    Nodes,            \* the native addresses of the peers
    NoNode,           \* the native address of length 0
    RequireSecurity,  \* requireEncryptionOrAuthenticationIfKeysExist, with keys
    PeersWait,        \* peers send nothing while a request or a wait is in progress
    MaxNesting        \* bound: waits of waitForTransport inside one another

ASSUME ReceivePathAssumption ==
    /\ NoNode \notin Nodes
    /\ RequireSecurity \in BOOLEAN
    /\ PeersWait \in BOOLEAN
    /\ MaxNesting \in Nat
    /\ \A m \in Messages :
          /\ m.from \in Nodes
          /\ m.protection \in {"plain", "valid", "invalid"}
          /\ m.answersRegistration \in BOOLEAN
    /\ OwnRequest.protection = "plain"
    /\ OwnRequest.answersRegistration = FALSE
    /\ OwnRequest.from = NoNode

VARIABLES
    nativeAddress,             \* messageReceiver.nativeAddress
    receivedMessageComplete,   \* status.isReceivedMessageComplete
    handlingComplete,          \* status.isReceivedMessageHandlingComplete
    responsePending,           \* status.isReceivedMessageResponsePending
    alState,                   \* status.state
    registrationInProgress,    \* status.registrationInProgress, or the deregistration's
    awaitingRegistration,      \* status.registrationRequestApInvocationId # 0
    okResponsePending,         \* transport: status.isSendMessageOKResponsePending
    transport,                 \* what keeps C1222TL_IsBusy true, if anything
    appState,                  \* the application's loop: looking, or serving a message
    served,                    \* the message it took, Nobody if it is none or several
    messageSent,               \* the application's reply may still be on its way
    waits,                     \* the waits of waitForTransport in progress
    answer                     \* the last response handed to the transport

receiver  == <<segmenter, nativeAddress>>
flags     == <<receivedMessageComplete, handlingComplete, responsePending>>
procedure == <<registrationInProgress, awaitingRegistration>>
app       == <<appState, served, messageSent>>
sending   == <<alState, transport, answer, waits>>
vars      == <<receiver, flags, procedure, app, sending, okResponsePending>>

\* A response to be sent, and what the caller of SendMessage does next: return
\* with an error to the transport, which resets its flag; clear the receiver; or
\* nothing that matters here.
Reasons   == {"tooLarge", "segmentError", "refused", "plainText", "reply", "error"}
Responses == [for : Nodes \cup {NoNode}, why : Reasons, then : {"notPending", "clear", "none"}]
Response(node, why, then) == [for |-> node, why |-> why, then |-> then]
Answers   == [to : Nodes \cup {NoNode}, for : Nodes \cup {NoNode}, why : Reasons \cup {"none"}]

Init ==
    /\ segmenter = Cleared
    /\ nativeAddress = NoNode
    /\ receivedMessageComplete = FALSE
    /\ handlingComplete = TRUE
    /\ responsePending = FALSE
    /\ alState = "IDLE"
    /\ registrationInProgress = FALSE
    /\ awaitingRegistration = FALSE
    /\ okResponsePending = FALSE
    /\ transport = "down"
    /\ appState = "looking"
    /\ served = Nobody
    /\ messageSent = FALSE
    /\ waits = <<>>
    /\ answer = [to |-> NoNode, for |-> NoNode, why |-> "none"]

-----------------------------------------------------------------------------
\* C1222TL_IsBusy: a request is pending, or the link is not ready.
TransportBusy == transport # "free"

\* C1222AL_Run is called by the application between two messages.  The
\* transport also runs inside a wait, and while a secured message is served
\* (the keep alive of the encryption).
InRun     == waits = <<>> /\ appState = "looking"
Secured   == appState = "serving" /\ (served \in Sources => served.protection = "valid")
TLRunning == InRun \/ waits # <<>> \/ Secured

\* The part of C1222AL_SendMessage after the wait: the message is handed to
\* the transport, or the link does not take it.  The address is a pointer to the
\* receiver's, read only now.
StartSend(r) ==
    \/ /\ answer' = [to |-> nativeAddress', for |-> r.for, why |-> r.why]
       /\ alState' = "SENDING"
       /\ transport' = "request"
       /\ messageSent' = IF r.why = "reply" THEN TRUE ELSE messageSent
    \/ UNCHANGED <<answer, alState, transport, messageSent>>

\* C1222AL_SendMessage: when the transport is busy the caller waits.
SendMessage(r) ==
    IF TransportBusy
    THEN /\ Len(waits) < MaxNesting
         /\ waits' = Append(waits, r)
         /\ UNCHANGED <<answer, alState, transport, messageSent>>
    ELSE StartSend(r) /\ UNCHANGED waits

\* What is left to do when SendMessage returns.
SegmenterAfter(s, r) == IF r.then = "clear" THEN Cleared ELSE s
PendingAfter(pending, r) == IF r.then = "notPending" THEN FALSE ELSE pending

-----------------------------------------------------------------------------
\* The message as the parser sees it starts with the first byte of the buffer.
\* When its bytes are of several messages its check may come out either way.
FirstByte(s) == s.workingMessageBuffer[0]
IsWhole(s)   == \A b \in Offsets :
                    b < s.workingMessageLength => s.workingMessageBuffer[b] = FirstByte(s)
Verdicts(s)  == IF IsWhole(s) THEN {FirstByte(s).protection # "invalid"} ELSE BOOLEAN

\* A mutation of CanArrive: the OK response owed is not looked at.
ArrivesAnyTime(p) ==
    /\ TLRunning
    /\ PeersWait => ~TransportBusy /\ waits = <<>>

\* A SendMessage request reaches the application layer: none does while the
\* response to an earlier one is owed (the transport answers NETR itself).
CanArrive(p) ==
    /\ TLRunning
    /\ ~okResponsePending
    /\ PeersWait => ~TransportBusy /\ waits = <<>>

\* A message that C1222AL_TLMessageReceived answers with an error: the
\* transport gets its OK first, then the response is sent, and the error it
\* returns makes the transport forget any OK response then pending.
Refuse(p, why) ==
    /\ receivedMessageComplete' = FALSE
    /\ SendMessage(Response(p.message.from, why, "notPending"))
    /\ UNCHANGED <<okResponsePending, handlingComplete, responsePending, procedure,
                   appState, served>>

ReceiveTooLarge(p) ==
    /\ CanArrive(p)
    /\ TooLarge(p)
    /\ UNCHANGED receiver
    /\ Refuse(p, "tooLarge")

ReceiveSegmentError(p) ==
    /\ CanArrive(p)
    /\ ~TooLarge(p)
    /\ SegmentError(segmenter, p)
    /\ nativeAddress' = p.message.from
    /\ UNCHANGED segmenter
    /\ Refuse(p, "segmentError")

\* AddSegment takes the part, and stores the address.
Receive(p) ==
    /\ CanArrive(p)
    /\ Accepts(segmenter, p)
    /\ nativeAddress' = p.message.from

ReceivePart(p) ==
    LET s == AddSegment(segmenter, p)
    IN  /\ Receive(p)
        /\ ~IsMessageComplete(s)
        /\ segmenter' = s
        /\ receivedMessageComplete' = FALSE
        /\ UNCHANGED <<handlingComplete, responsePending, procedure, app, sending,
                       okResponsePending>>

\* Decrypt or Authenticate fails.  The receiver is not cleared.
ReceiveUnverified(p) ==
    LET s == AddSegment(segmenter, p)
    IN  /\ Receive(p)
        /\ IsMessageComplete(s)
        /\ FALSE \in Verdicts(s)
        /\ segmenter' = s
        /\ Refuse(p, "refused")

\* MeterProcessReceivedMessage, for a message that passed.
IsRegistrationResponse(s) == awaitingRegistration /\ FirstByte(s).answersRegistration
IsUnwantedPlainText(s)    == RequireSecurity /\ FirstByte(s).protection = "plain"

\* A response to the registration request is consumed here.
ReceiveRegistrationResponse(p) ==
    LET s == AddSegment(segmenter, p)
    IN  /\ Receive(p)
        /\ IsMessageComplete(s)
        /\ TRUE \in Verdicts(s)
        /\ IsRegistrationResponse(s)
        /\ segmenter' = Cleared
        /\ receivedMessageComplete' = FALSE
        /\ \/ /\ awaitingRegistration' = FALSE
              /\ registrationInProgress' = FALSE
              /\ alState' = "IDLE"
           \/ UNCHANGED <<procedure, alState>>
        /\ UNCHANGED <<handlingComplete, responsePending, app, transport, answer, waits,
                       okResponsePending>>

\* A plain text message where security is required: the sender is told, then
\* the receiver is cleared.
ReceivePlainText(p) ==
    LET s == AddSegment(segmenter, p)
        r == Response(p.message.from, "plainText", "clear")
    IN  /\ Receive(p)
        /\ IsMessageComplete(s)
        /\ TRUE \in Verdicts(s)
        /\ ~IsRegistrationResponse(s)
        /\ IsUnwantedPlainText(s)
        /\ receivedMessageComplete' = FALSE
        /\ segmenter' = IF TransportBusy THEN s ELSE SegmenterAfter(s, r)
        /\ SendMessage(r)
        /\ UNCHANGED <<handlingComplete, responsePending, procedure, appState, served,
                       okResponsePending>>

\* C1222AL_NoteReceivedCompleteMessage: the message is for the application, and
\* the transport owes the OK response until the application is done.
ReceiveForApplication(p) ==
    LET s == AddSegment(segmenter, p)
    IN  /\ Receive(p)
        /\ IsMessageComplete(s)
        /\ TRUE \in Verdicts(s)
        /\ ~IsRegistrationResponse(s)
        /\ ~IsUnwantedPlainText(s)
        /\ segmenter' = s
        /\ handlingComplete' = FALSE
        /\ receivedMessageComplete' = TRUE
        /\ responsePending' = TRUE
        /\ okResponsePending' = TRUE
        /\ UNCHANGED <<procedure, app, sending>>

\* A message of neither standard is no action here: the transport's flag is set,
\* reset with a failed response and reset once more when the error is returned,
\* all in one call and before anything else is written.
Arrival(p) ==
    \/ ReceiveTooLarge(p)
    \/ ReceiveSegmentError(p)
    \/ ReceivePart(p)
    \/ ReceiveUnverified(p)
    \/ ReceiveRegistrationResponse(p)
    \/ ReceivePlainText(p)
    \/ ReceiveForApplication(p)

-----------------------------------------------------------------------------
\* The application's loop.  It takes no message while its last reply is sent.
TakeMessage ==
    /\ InRun
    /\ receivedMessageComplete
    /\ ~(messageSent /\ alState = "SENDING")
    /\ messageSent' = FALSE
    /\ receivedMessageComplete' = FALSE
    /\ appState' = "serving"
    /\ served' = IF IsWhole(segmenter) THEN FirstByte(segmenter) ELSE Nobody
    /\ UNCHANGED <<receiver, handlingComplete, responsePending, procedure, sending,
                   okResponsePending>>

\* A mutation of NoteHandlingComplete: the transport is not told.
TransportIsNotTold ==
    /\ handlingComplete' = TRUE
    /\ segmenter' = Cleared
    /\ responsePending' = FALSE
    /\ UNCHANGED <<nativeAddress, receivedMessageComplete, procedure, okResponsePending>>

\* C1222AL_NoteReceivedMessageHandlingIsComplete (and ...HandlingFailed, which
\* differs in the code of the response the transport sends).
NoteHandlingComplete ==
    /\ handlingComplete' = TRUE
    /\ segmenter' = Cleared
    /\ responsePending' = FALSE
    /\ okResponsePending' = IF responsePending THEN FALSE ELSE okResponsePending
    /\ UNCHANGED <<nativeAddress, receivedMessageComplete, procedure>>

Serving == waits = <<>> /\ appState = "serving"
DoneServing == appState' = "looking" /\ served' = Nobody

\* C1222Server_ProcessMessage with a response, or C1222Server_SimpleResponse:
\* the receiver is released first, then the response is sent.
Requester == IF served \in Sources THEN served.from ELSE NoNode

Reply(why) ==
    /\ Serving
    /\ DoneServing
    /\ NoteHandlingComplete
    /\ SendMessage(Response(Requester, why, "none"))

\* A mutation of Dismiss: the end of the handling is not noted.
DismissSilently ==
    /\ Serving
    /\ DoneServing
    /\ UNCHANGED <<receiver, flags, procedure, messageSent, sending, okResponsePending>>

\* A duplicate in the receive history, a notification, or a message that wants
\* no response.
Dismiss ==
    /\ Serving
    /\ DoneServing
    /\ NoteHandlingComplete
    /\ UNCHANGED <<messageSent, sending>>

-----------------------------------------------------------------------------
Popped == SubSeq(waits, 1, Len(waits) - 1)

\* The innermost wait returns, its caller sends if the transport is free and
\* gives up after five seconds if it is not, and does what it has left to do.
WaitReturns ==
    /\ waits # <<>>
    /\ LET r == waits[Len(waits)]
       IN  /\ segmenter' = SegmenterAfter(segmenter, r)
           /\ okResponsePending' = PendingAfter(okResponsePending, r)
           /\ UNCHANGED nativeAddress
           /\ \/ ~TransportBusy /\ StartSend(r)
              \/ TransportBusy /\ UNCHANGED <<answer, alState, transport, messageSent>>
    /\ waits' = Popped
    /\ UNCHANGED <<flags, procedure, appState, served>>

\* The transport gets the response to its request, or gives up on it.  Between
\* the segments and the tries of one message the request stays pending.  When
\* the last segment was acknowledged the state moves on, when all tries failed it
\* is idle, and when a later segment cannot be sent nobody is told.
AfterSend ==
    {IF registrationInProgress THEN "REGISTERING" ELSE "IDLE", "IDLE", "SENDING"}

RequestCompletes ==
    /\ TLRunning
    /\ transport = "request"
    /\ transport' = "free"
    /\ IF alState = "SENDING" THEN alState' \in AfterSend ELSE UNCHANGED alState
    /\ UNCHANGED <<receiver, flags, procedure, app, answer, waits, okResponsePending>>

\* A reset or the failure of the link: C1222AL_TL_NoteLinkFailure.
LinkFails ==
    /\ TLRunning
    /\ transport' = "down"
    /\ alState' = "IDLE"
    /\ UNCHANGED <<receiver, flags, procedure, app, answer, waits, okResponsePending>>

\* C1222AL_NotePowerUp: the transport forgets its request without telling.
PowerUp ==
    /\ transport' = "down"
    /\ UNCHANGED <<receiver, flags, procedure, app, alState, answer, waits, okResponsePending>>

\* The link is negotiated again.
LinkReady ==
    /\ TLRunning
    /\ transport = "down"
    /\ transport' = "free"
    /\ UNCHANGED <<receiver, flags, procedure, app, alState, answer, waits, okResponsePending>>

-----------------------------------------------------------------------------
\* C1222AL_Run of a device.  In the idle state it makes requests of its own.
DeviceRequests ==
    /\ InRun
    /\ alState = "IDLE"
    /\ ~TransportBusy
    /\ transport' = "request"
    /\ UNCHANGED <<receiver, flags, procedure, app, alState, answer, waits, okResponsePending>>

\* A mutation of CanRegister: the receive segmenter is not looked at.
RegistersOverPartial ==
    /\ InRun
    /\ alState = "IDLE"
    /\ ~TransportBusy
    /\ handlingComplete
    /\ ~receivedMessageComplete

\* DeviceHandleTimeToRegister and ...DeRegister: the request is built in the
\* receive segmenter, then sent, or the link does not take it.
CanRegister ==
    /\ InRun
    /\ alState = "IDLE"
    /\ IsMessageComplete(segmenter)
    /\ ~TransportBusy
    /\ handlingComplete
    /\ ~receivedMessageComplete

SendRegistrationRequest ==
    /\ CanRegister
    /\ segmenter' = BuildOwnRequest(segmenter)
    /\ awaitingRegistration' = TRUE
    /\ \/ /\ alState' = "SENDING"
          /\ transport' = "request"
          /\ registrationInProgress' = TRUE
       \/ UNCHANGED <<alState, transport, registrationInProgress>>
    /\ UNCHANGED <<nativeAddress, flags, app, answer, waits, okResponsePending>>

\* DeviceSendingMessage after sendTimeOutSeconds: the message is sent again while
\* it has tries left.
RestartSend ==
    /\ InRun
    /\ alState = "SENDING"
    /\ ~TransportBusy
    /\ transport' = "request"
    /\ UNCHANGED <<receiver, flags, procedure, app, alState, answer, waits, okResponsePending>>

\* DeviceSendingMessage after the last try: the send is given up.
SendTimesOut ==
    /\ InRun
    /\ alState = "SENDING"
    /\ alState' = "IDLE"
    /\ UNCHANGED <<receiver, flags, procedure, app, transport, answer, waits,
                   okResponsePending>>

\* DeviceWaitForRegistrationResponse after its retry period.
RegistrationTimesOut ==
    /\ InRun
    /\ alState = "REGISTERING"
    /\ alState' = "IDLE"
    /\ registrationInProgress' = FALSE
    /\ UNCHANGED <<receiver, flags, awaitingRegistration, app, transport, answer, waits,
                   okResponsePending>>

\* HandleReceiveSegmentTimeout, and C1222Stack_CancelPartiallyReceivedMessage.
DropPartialMessage ==
    /\ InRun
    /\ IsPartial(segmenter)
    /\ segmenter' = Cleared
    /\ UNCHANGED <<nativeAddress, flags, procedure, app, sending, okResponsePending>>

\* C1222AL_ReInitAfterRFLANFwDownload with C1222TL_ReInitAfterRFLANFwDownload:
\* the communication module restarts with new firmware.
ReInit ==
    /\ InRun
    /\ segmenter' = Cleared
    /\ nativeAddress' = NoNode
    /\ receivedMessageComplete' = FALSE
    /\ handlingComplete' = TRUE
    /\ responsePending' = FALSE
    /\ okResponsePending' = FALSE
    /\ registrationInProgress' = FALSE
    /\ alState' = "IDLE"
    /\ transport' = "down"
    /\ UNCHANGED <<awaitingRegistration, app, answer, waits>>

-----------------------------------------------------------------------------
AppNext == TakeMessage \/ Reply("reply") \/ Reply("error") \/ Dismiss

DeviceNext ==
    \/ DeviceRequests
    \/ SendRegistrationRequest
    \/ RestartSend
    \/ SendTimesOut
    \/ RegistrationTimesOut
    \/ DropPartialMessage
    \/ ReInit

Next ==
    \/ \E p \in Parts : Arrival(p)
    \/ AppNext
    \/ WaitReturns
    \/ RequestCompletes
    \/ LinkFails
    \/ PowerUp
    \/ LinkReady
    \/ DeviceNext

Spec == Init /\ [][Next]_vars

\* The application's loop runs for ever and does not stay in a message; a wait
\* ends, with a free transport or after five seconds; the transport answers or
\* gives up, and the application layer times out a send that nothing completes,
\* after the few tries it has.
FairSpec ==
    /\ Spec
    /\ WF_vars(AppNext)
    /\ WF_vars(WaitReturns)
    /\ WF_vars(RequestCompletes)
    /\ WF_vars(SendTimesOut)

-----------------------------------------------------------------------------
TypeOK ==
    /\ segmenter \in Segmenters
    /\ nativeAddress \in Nodes \cup {NoNode}
    /\ receivedMessageComplete \in BOOLEAN
    /\ handlingComplete \in BOOLEAN
    /\ responsePending \in BOOLEAN
    /\ alState \in {"IDLE", "SENDING", "REGISTERING"}
    /\ registrationInProgress \in BOOLEAN
    /\ awaitingRegistration \in BOOLEAN
    /\ okResponsePending \in BOOLEAN
    /\ transport \in {"free", "request", "down"}
    /\ appState \in {"looking", "serving"}
    /\ served \in Sources \cup {Nobody}
    /\ messageSent \in BOOLEAN
    /\ waits \in Seq(Responses)
    /\ answer \in Answers

\* Whatever the order of arrivals, waits and answers, the receive segmenter
\* only takes the steps of the segmenter, so its invariants hold here too.
ImplementsSegmenter == SegmenterSpec

\* The transport refuses messages (NETR) only while the application has one to
\* take or to finish, and the application's end of handling will release it.
NETROnlyWhileHandling ==
    okResponsePending =>
        /\ responsePending
        /\ receivedMessageComplete \/ appState = "serving"

\* "it is done with the last message received which should allow the transport
\* to receive a new message": the transport does not refuse messages for ever.
TransportIsReleased == okResponsePending ~> ~okResponsePending

\* "returns true when a complete message is available" (c1222stack.c): what is
\* announced to the application, or held by it, is still in the buffer.  True
\* while the peers wait.  When they do not, a plain text message that is refused
\* waits to be answered, and then clears the message that came in the wait.
AvailableIsHeld ==
    receivedMessageComplete \/ appState = "serving" =>
        /\ segmenter.disjointSegments # {}
        /\ IsMessageComplete(segmenter)

\* A message announced to the application is not dropped for a later one.  True
\* while the peers wait: it rests on the OK response owed for the message.
AcceptedIsTaken ==
    [][receivedMessageComplete /\ ~receivedMessageComplete' => TakeMessage \/ ReInit]_vars

\* "the native address is already stored in the message receiver": a response
\* goes to the node whose message it answers, and no arrival changed the address
\* while the application had that message.  True while the peers wait, and no
\* more: the address is a pointer that is read after the wait for the transport,
\* and a message of another node in that wait gets the response.  (The answer to
\* a message that is too large is left aside: it is refused before the address of
\* its sender is stored.)
AnswerToRequester ==
    answer.why # "tooLarge" /\ answer.for # NoNode => answer.to = answer.for

=============================================================================
