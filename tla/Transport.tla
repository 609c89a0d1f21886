------------------------------ MODULE Transport ------------------------------
(***************************************************************************)
(* The transports of a device and of its communication module: c1222tl.c.  *)
(* The communication module negotiates the link and asks for the           *)
(* configuration; then both send messages for their application layers.    *)
(*                                                                         *)
(* A transport has one request pending, without a number: any answer is    *)
(* taken for the answer to it.  A call that sends blocks; what arrives     *)
(* meanwhile, or while the stack is polled, is kept in a buffer for one    *)
(* message.  C1222TL_Run is divided into what it does between two such     *)
(* calls, and a Run that finds nothing to do is a stutter.                 *)
(*                                                                         *)
(* The data link is reduced to what MessageLink promises, the speed of the *)
(* line, and its timeouts.                                                 *)
(***************************************************************************)
EXTENDS Integers, Sequences

CONSTANTS
    Device,
    CommModule,
    Bauds,           \* the speeds a line can have
    DefaultBaud,     \* the speed after a reset of the link
    BestBaud,        \* what SelectBaudRate of the device selects
    DeviceRequests,  \* the requests of the device, and what it makes them for
    Restarts,        \* what restarts one end: "reset", "powerUp", "reboot"
    MaxFaults,       \* bound: calls that fail, and timeouts that fire too early
    MaxRequests      \* bound: requests of the application layers, and restarts

Ends == {Device, CommModule}

Peer(e) == IF e = Device THEN CommModule ELSE Device

-----------------------------------------------------------------------------
\* The messages of this layer.  A response does not say what it answers: "to" is
\* what a receiver cannot see.
Request(kind) == [kind |-> kind]
Control(c)    == [kind |-> "linkcontrol", control |-> c]

Response(code, to) == [kind |-> "response", code |-> code, to |-> to]

Negotiate == Request("negotiate")
GetConfig == Request("getconfig")
GetStatus == Request("status")
Send      == Request("send")

Kinds    == {"negotiate", "getconfig", "linkcontrol", "send", "status"}
Controls == {"reset", "reload", "other"}

RequestMessages ==
    {Request(k) : k \in Kinds \ {"linkcontrol"}}
        \cup {Control(c) : c \in Controls}

\* What is answered: of a link control, which one.
Answered == Controls \cup (Kinds \ {"linkcontrol"})

Messages ==
    RequestMessages \cup {Response(code, to) : code \in {"OK", "NETR", "ISSS", "ERR"}, to \in Answered}

NoMessage == [kind |-> "none"]

ASSUME TransportAssumption ==
    /\ Device # CommModule
    /\ DefaultBaud \in Bauds
    /\ BestBaud \in Bauds
    /\ DeviceRequests \subseteq {Control(c) : c \in Controls} \cup {GetStatus}
    /\ Restarts \subseteq {"reset", "powerUp", "reboot"}
    /\ MaxFaults \in Nat
    /\ MaxRequests \in Nat

VARIABLES
    status,    \* of the transport
    running,   \* where in C1222TL_Run: idle, resetting, or deaf in WaitABit
    calls,     \* what it is sending: calls of the data link that block, in order
    rx,        \* rxMessageBuffer, when receivedMessageIsComplete
    baud,      \* of the data link
    al,        \* what the application layer is sending, and the tries it has left
    faults,    \* how many calls failed, or timeouts fired, that need not have
    requests   \* how many requests and restarts there were

vars == <<status, running, calls, rx, baud, al, faults, requests>>

budgets == <<faults, requests>>

-----------------------------------------------------------------------------
\* C1222TL_Init and CommonInit.
InitialStatus(e) ==
    [state             |-> "INIT",
     pending           |-> "none",  \* pendingRequest
     delayed           |-> {},      \* delayedRequests, with their parameters
     resetNeeded       |-> FALSE,
     negotiateComplete |-> FALSE,
     haveConfiguration |-> e = Device,
     commModulePresent |-> FALSE,
     okOwed            |-> FALSE,   \* isSendMessageOKResponsePending
     failureOwed       |-> FALSE,   \* sendMessageResponseIsPending
     inhibited         |-> FALSE]   \* noOptionalCommPeriodStart, within its 15 s

\* The application layer: whether it is sending, whether C1222AL_SendMessage has yet
\* to return, and triesLeft.
NotSending == [state |-> "idle", starting |-> FALSE, tries |-> 0]

Init ==
    /\ status = [e \in Ends |-> InitialStatus(e)]
    /\ running = [e \in Ends |-> "idle"]
    /\ calls = [e \in Ends |-> <<>>]
    /\ rx = [e \in Ends |-> NoMessage]
    /\ baud = [e \in Ends |-> DefaultBaud]
    /\ al = [e \in Ends |-> NotSending]
    /\ faults = 0
    /\ requests = 0

IsReady(e) ==
    /\ status[e].negotiateComplete
    /\ status[e].haveConfiguration
    /\ e = Device => status[e].commModulePresent

IsBusy(e) ==
    \/ status[e].pending # "none"
    \/ status[e].state # "NORMAL"
    \/ ~IsReady(e)

Calling(e) == calls[e] # <<>>
Idle(e)    == ~Calling(e) /\ running[e] = "idle"
Polled(e)  == Idle(e) /\ rx[e] = NoMessage

\* A call of the data link that blocks, and whether the peer has its message.
Call(m) == [message |-> m, received |-> FALSE]

\* C1222DL_SendOneTryMessage.  The other calls are repeated, and reset the link when
\* all their tries fail.
IsOneTry(m) ==
    \/ m.kind \in Kinds \ {"send"}
    \/ m.kind = "response" /\ m.to = "negotiate"

IsRequest(m) == m.kind \in Kinds \ {"send"}

\* delayedRequests has a bit for each kind, and a parameter for some.
Delayed(s, m) == [s EXCEPT !.delayed = {d \in @ : d.kind # m.kind} \cup {m}]

\* NoteRequest, after SendRequest has reset the bit.
NoteRequest(s, m) ==
    [s EXCEPT !.pending = m.kind,
              !.delayed = {d \in @ : d.kind # m.kind}]

\* C1222TL_DLNoteLinkFailure.
ResetLink(s) == [s EXCEPT !.state = "INIT", !.resetNeeded = TRUE]

\* C1222MessageSender_RestartSend, and C1222AL_TL_NoteLinkFailure.
RestartSend(a)  == IF a.tries > 0 THEN <<Call(Send)>> ELSE <<>>
UseTry(a)       == [a EXCEPT !.tries = @ - 1]

\* A mutation of NoteFailure: the application layer stays in the state sending.
FailureIsNotNoted(a) == a

NoteFailure(a) == [a EXCEPT !.state = "idle"]

\* A mutation of NoteFailedSend: the tries are not counted.
RestartsAlways(a) == UseTry(a)

\* C1222AL_TL_NoteFailedSendMessage.
NoteFailedSend(a) == IF a.tries > 0 THEN UseTry(a) ELSE NoteFailure(a)

-----------------------------------------------------------------------------
\* Where a call ends.

\* A message is received in C1222DL_Run, which two states reach, and in a call: then
\* what was not handled yet is discarded (C1222TL_DLNotePacketReceived).  The physical
\* layer keeps what comes in WaitABit.
CanReceive(e) ==
    \/ Calling(e)
    \/ running[e] = "deaf"
    \/ /\ Polled(e)
       /\ ~status[e].resetNeeded
       /\ status[e].state \in {"DISCONNECTED", "NORMAL"}

Fault ==
    /\ faults < MaxFaults
    /\ faults' = faults + 1

\* What a call does to the status when its message was acknowledged.  A request is
\* pending; the other end of a negotiation may use the link.
SucceedsFor(s, m) ==
    CASE m = Response("OK", "getconfig") -> [s EXCEPT !.commModulePresent = TRUE]
      [] m = Response("OK", "negotiate") ->
            [s EXCEPT !.negotiateComplete = TRUE, !.state = "NORMAL"]
      [] m = Send     -> [NoteRequest(s, m) EXCEPT !.inhibited = FALSE]
      [] IsRequest(m) -> NoteRequest(s, m)
      [] OTHER        -> s

\* ... and when it was not: a request is sent again after a delay.
FailsFor(s, m) ==
    CASE IsRequest(m) -> Delayed(s, m)
      [] ~IsRequest(m) /\ IsOneTry(m) -> s
      [] OTHER -> ResetLink(s)

\* A link control takes effect after its answer, whether it was sent or not.
AfterAnswer(s, m) ==
    CASE m = Response("OK", "reset")  -> [s EXCEPT !.resetNeeded = TRUE]
      [] m = Response("OK", "reload") ->
            [s EXCEPT !.haveConfiguration = FALSE,
                      !.state = IF @ = "NORMAL" THEN "NEEDCONFIG" ELSE @]
      [] OTHER -> s

AfterSuccess(e, m) ==
    /\ status' = [status EXCEPT ![e] = AfterAnswer(SucceedsFor(@, m), m)]
    /\ baud' = IF m = Response("OK", "negotiate")
               THEN [baud EXCEPT ![e] = BestBaud] ELSE baud
    /\ al' = IF m = Send /\ al[e].starting
             THEN [al EXCEPT ![e] = [@ EXCEPT !.state = "sending", !.starting = FALSE]]
             ELSE al
    /\ calls' = [calls EXCEPT ![e] = Tail(@)]

\* The message sender tries again at once.
AfterFailure(e, m) ==
    /\ status' = [status EXCEPT ![e] = AfterAnswer(FailsFor(@, m), m)]
    /\ baud' = IF IsOneTry(m) THEN baud ELSE [baud EXCEPT ![e] = DefaultBaud]
    /\ al' = [al EXCEPT ![e] =
          CASE m # Send -> @
            [] m = Send /\ @.tries > 0 -> UseTry(@)
            [] m = Send /\ @.tries = 0 /\ @.starting -> [@ EXCEPT !.starting = FALSE]
            [] OTHER -> NoteFailure(@)]
    /\ calls' = [calls EXCEPT ![e] =
          (IF m = Send THEN RestartSend(al[e]) ELSE <<>>) \o Tail(@)]

CallSucceeds(e) ==
    /\ Calling(e)
    /\ ~Head(calls[e]).received
    /\ baud[e] = baud[Peer(e)]
    /\ running[Peer(e)] # "deaf"
    /\ CanReceive(Peer(e))
    /\ rx' = [rx EXCEPT ![Peer(e)] = Head(calls[e]).message]
    /\ AfterSuccess(e, Head(calls[e]).message)
    /\ UNCHANGED <<running, budgets>>

\* The acknowledgement is lost, or comes too late from a peer in WaitABit.
CallIsNotAcknowledged(e) ==
    /\ Calling(e)
    /\ ~Head(calls[e]).received
    /\ baud[e] = baud[Peer(e)]
    /\ CanReceive(Peer(e))
    /\ IF running[Peer(e)] = "deaf" THEN UNCHANGED faults ELSE Fault
    /\ rx' = [rx EXCEPT ![Peer(e)] = Head(calls[e]).message]
    /\ calls' = [calls EXCEPT ![e][1].received = TRUE]
    /\ UNCHANGED <<status, running, baud, al, requests>>

CallFails(e) ==
    /\ Calling(e)
    /\ IF Head(calls[e]).received \/ baud[e] # baud[Peer(e)]
       THEN UNCHANGED faults ELSE Fault
    /\ AfterFailure(e, Head(calls[e]).message)
    /\ UNCHANGED <<running, rx, requests>>

CallEnds(e) == CallSucceeds(e) \/ CallIsNotAcknowledged(e) \/ CallFails(e)

-----------------------------------------------------------------------------
\* HandleReceivedTransportMessage.

Handles(e, ms) ==
    /\ ~Calling(e)
    /\ running[e] # "deaf"
    /\ rx[e] \in ms
    /\ rx' = [rx EXCEPT ![e] = NoMessage]
    /\ UNCHANGED <<running, budgets>>

Responses(codes) == [kind : {"response"}, code : codes, to : Answered]

Answer(e, code, to) == calls' = [calls EXCEPT ![e] = <<Call(Response(code, to))>>]

\* ProcessReceivedNegotiateRequest, up to the answer.
HandleNegotiate(e) ==
    /\ Handles(e, {Negotiate})
    /\ status' = [status EXCEPT ![e].inhibited = TRUE]
    /\ Answer(e, "OK", "negotiate")
    /\ UNCHANGED <<baud, al>>

\* ProcessReceivedGetConfigRequest, up to the answer; ProcessReceivedGetStatusRequest.
HandleGet(e) ==
    /\ Handles(e, {GetConfig, GetStatus})
    /\ status' = [status EXCEPT ![e].inhibited = @ \/ rx[e] = GetConfig]
    /\ Answer(e, "OK", rx[e].kind)
    /\ UNCHANGED <<baud, al>>

\* ProcessReceivedLinkControlRequest, up to the answer.
HandleLinkControl(e) ==
    /\ Handles(e, {Control(c) : c \in Controls})
    /\ Answer(e, "OK", rx[e].control)
    /\ UNCHANGED <<status, baud, al>>

\* ProcessReceivedSendMessageRequest: refused before there is a configuration, and
\* while a message is being handled.
HandleSendRefused(e) ==
    /\ Handles(e, {Send})
    /\ ~status[e].haveConfiguration \/ status[e].okOwed
    /\ Answer(e, IF status[e].haveConfiguration THEN "NETR" ELSE "ISSS", "send")
    /\ UNCHANGED <<status, baud, al>>

\* ... or given to the application layer, which answers at once or later.
HandleSend(e) ==
    /\ Handles(e, {Send})
    /\ status[e].haveConfiguration
    /\ ~status[e].okOwed
    /\ \/ /\ status' = [status EXCEPT ![e].okOwed = TRUE]
          /\ UNCHANGED calls
       \/ /\ \E code \in {"OK", "ERR"} : Answer(e, code, "send")
          /\ UNCHANGED status
    /\ UNCHANGED <<baud, al>>

\* ProcessResponseMessage: whatever was asked, this is the answer to it.
Clear(s) == [s EXCEPT !.pending = "none"]

HandleBadResponse(e) ==
    /\ Handles(e, Responses({"NETR", "ISSS", "ERR"}))
    /\ status[e].pending # "send"
    /\ status' = [status EXCEPT ![e] = Clear(@)]
    /\ al' = [al EXCEPT ![e] = NoteFailure(@)]
    /\ UNCHANGED <<baud, calls>>

HandleNETR(e) ==
    /\ Handles(e, Responses({"NETR"}))
    /\ status[e].pending = "send"
    /\ status' = [status EXCEPT ![e] = [Clear(@) EXCEPT !.failureOwed = TRUE]]
    /\ UNCHANGED <<baud, al, calls>>

HandleFailedSend(e) ==
    /\ Handles(e, Responses({"ISSS", "ERR"}))
    /\ status[e].pending = "send"
    /\ status' = [status EXCEPT ![e] = Clear(@)]
    /\ al' = [al EXCEPT ![e] = NoteFailedSend(@)]
    /\ calls' = [calls EXCEPT ![e] = RestartSend(al[e])]
    /\ UNCHANGED baud

\* ProcessReceivedNegotiateResponse.  There is no check of the length: of an answer
\* to something else the baud is any.
HandleNegotiated(e) ==
    /\ Handles(e, Responses({"OK"}))
    /\ status[e].pending = "negotiate"
    /\ \E b \in Bauds :
          /\ rx[e].to = "negotiate" => b = BestBaud
          /\ baud' = [baud EXCEPT ![e] = b]
    /\ status' = [status EXCEPT ![e] =
          [Clear(@) EXCEPT !.negotiateComplete = TRUE,
                           !.state = IF status[e].haveConfiguration
                                     THEN "NORMAL" ELSE "NEEDCONFIG"]]
    /\ UNCHANGED <<al, calls>>

\* A mutation of HandleConfiguration: a short answer is taken for a configuration.
HandlesAnyConfiguration(e) ==
    /\ Handles(e, Responses({"OK"}))
    /\ status[e].pending = "getconfig"
    /\ status' = [status EXCEPT ![e] =
          [Clear(@) EXCEPT !.haveConfiguration = rx[e].to = "getconfig", !.state = "NORMAL"]]
    /\ UNCHANGED <<baud, al, calls>>

\* ProcessReceivedGetConfigResponse.  The other answers are too short to be one.
HandleConfiguration(e) ==
    /\ Handles(e, Responses({"OK"}))
    /\ status[e].pending = "getconfig"
    /\ status' = [status EXCEPT ![e] =
          IF rx[e].to = "getconfig"
          THEN [Clear(@) EXCEPT !.haveConfiguration = TRUE, !.state = "NORMAL"]
          ELSE Clear(@)]
    /\ UNCHANGED <<baud, al, calls>>

\* C1222AL_TLSendMessageResponse, of a message of one segment.
HandleSent(e) ==
    /\ Handles(e, Responses({"OK"}))
    /\ status[e].pending = "send"
    /\ status' = [status EXCEPT ![e] = Clear(@)]
    /\ al' = [al EXCEPT ![e].state = "idle"]
    /\ UNCHANGED <<baud, calls>>

HandleOther(e) ==
    /\ Handles(e, Responses({"OK"}))
    /\ status[e].pending \in {"none", "linkcontrol", "status"}
    /\ status' = [status EXCEPT ![e] = Clear(@)]
    /\ UNCHANGED <<baud, al, calls>>

HandleReceived(e) ==
    \/ HandleNegotiate(e)
    \/ HandleGet(e)
    \/ HandleLinkControl(e)
    \/ HandleSendRefused(e)
    \/ HandleSend(e)
    \/ HandleBadResponse(e)
    \/ HandleNETR(e)
    \/ HandleFailedSend(e)
    \/ HandleNegotiated(e)
    \/ HandleConfiguration(e)
    \/ HandleSent(e)
    \/ HandleOther(e)

-----------------------------------------------------------------------------
\* C1222TL_Run.

\* What happens within milliseconds, and the two seconds that a call of one try waits.
\* The other timeouts are longer: one that comes first counts as a fault.
LineIsUsable == baud[Device] = baud[CommModule] /\ running[Device] # "deaf"

InProgress ==
    \E e \in Ends :
       \/ Calling(e) /\ IsOneTry(Head(calls[e]).message)
       \/ Calling(e) /\ ~Head(calls[e]).received /\ LineIsUsable
       \/ ~Calling(e) /\ running[e] = "resetting"
       \/ Idle(e) /\ rx[e] # NoMessage
       \/ Idle(e) /\ (status[e].resetNeeded \/ status[e].state \in {"INIT", "NEEDCONFIG"})

Timeout == IF InProgress THEN Fault ELSE UNCHANGED faults

\* In the state NORMAL the communication module sends keep alives, which are
\* acknowledged.  On any other line the traffic timeout comes before those that are
\* longer.
LineIsAlive == LineIsUsable /\ status[CommModule].state = "NORMAL"

LongTimeout == LineIsAlive /\ Timeout

StartOver(s) == [s EXCEPT !.resetNeeded = FALSE, !.state = "INIT"]

\* A reset: the device tells the communication module, unless it shall be quiet.
RunReset(e) ==
    /\ Idle(e)
    /\ status[e].resetNeeded
    /\ running' = [running EXCEPT ![e] = "resetting"]
    /\ IF e = Device /\ ~status[e].inhibited
       THEN /\ status' = [status EXCEPT ![e] =
                 [StartOver(@) EXCEPT !.negotiateComplete = FALSE]]
            /\ calls' = [calls EXCEPT ![e] = <<Call(Control("reset"))>>]
       ELSE /\ status' = [status EXCEPT ![e] = StartOver(@)]
            /\ UNCHANGED calls
    /\ UNCHANGED <<rx, baud, al, budgets>>

\* The state INIT, also after a reset whatever was received meanwhile.  A pending
\* request is aborted; the communication module negotiates.  A reset that is needed by
\* now waits for the next Run, if this one began before; when it began is not kept.
RunInit(e) ==
    LET pending == status[e].pending
    IN
    /\ ~Calling(e)
    /\ rx[e] = NoMessage
    /\ \/ running[e] = "resetting"
       \/ running[e] = "idle" /\ status[e].state = "INIT"
    /\ running' = [running EXCEPT ![e] = "idle"]
    /\ status' = [status EXCEPT ![e] =
          [Clear(@) EXCEPT !.state = "DISCONNECTED",
                           !.negotiateComplete = FALSE,
                           !.haveConfiguration = e = Device]]
    /\ al' = [al EXCEPT ![e] =
          CASE pending = "send" -> NoteFailedSend(@)
            [] pending = "none" /\ running[e] = "idle" -> @
            [] OTHER -> NoteFailure(@)]
    /\ calls' = [calls EXCEPT ![e] =
          (IF pending = "send" THEN RestartSend(al[e]) ELSE <<>>)
              \o (IF e = CommModule THEN <<Call(Negotiate)>> ELSE <<>>)]
    /\ UNCHANGED <<rx, baud, budgets>>

RunNeedConfig(e) ==
    /\ Polled(e)
    /\ ~status[e].resetNeeded
    /\ status[e].state = "NEEDCONFIG"
    /\ status' = [status EXCEPT ![e].state = "DISCONNECTED"]
    /\ calls' = [calls EXCEPT ![e] = <<Call(GetConfig)>>]
    /\ UNCHANGED <<running, rx, baud, al, budgets>>

\* The state DISCONNECTED: only the request for the configuration is sent again.  The
\* test for the negotiate request, !delayedRequests & C1222TL_DELAYED_NEGOTIATE, is
\* (0 or 1) & 8.
MustGetConfig(s) ==
    /\ s.state = "DISCONNECTED"
    /\ s.negotiateComplete
    /\ ~s.haveConfiguration
    /\ s.delayed = {}

RunDisconnected(e) ==
    /\ Polled(e)
    /\ e = CommModule
    /\ ~status[e].resetNeeded
    /\ MustGetConfig(status[e])
    /\ Timeout
    /\ calls' = [calls EXCEPT ![e] = <<Call(GetConfig)>>]
    /\ UNCHANGED <<status, running, rx, baud, al, requests>>

\* HandleDelayedRequests: the delayed request to send is the first in this order.
Rank == [negotiate |-> 1, getconfig |-> 2, status |-> 3, linkcontrol |-> 4]

\* A request for the status is delayed again while the device shall be quiet.
DueRequests(s) ==
    {m \in s.delayed :
        /\ s.pending = "none"
        /\ \A d \in s.delayed : Rank[m.kind] <= Rank[d.kind]
        /\ m = GetStatus => ~s.inhibited}

HandleDelayedRequests(e) ==
    /\ Polled(e)
    /\ ~status[e].resetNeeded
    /\ status[e].state \in {"DISCONNECTED", "NORMAL"}
    /\ \E m \in DueRequests(status[e]) : calls' = [calls EXCEPT ![e] = <<Call(m)>>]
    /\ Timeout
    /\ UNCHANGED <<status, running, rx, baud, al, requests>>

\* A NETR is told to the application layer after the time it is given to send.
FailureIsDue(e) ==
    /\ Polled(e)
    /\ status[e].state = "NORMAL"
    /\ status[e].failureOwed
    /\ status' = [status EXCEPT ![e].failureOwed = FALSE]
    /\ Timeout
    /\ al' = [al EXCEPT ![e] = NoteFailedSend(@)]
    /\ calls' = [calls EXCEPT ![e] = RestartSend(al[e])]
    /\ UNCHANGED <<running, rx, baud, requests>>

\* The device waits 9 seconds, so that the communication module has a traffic timeout,
\* when it has not been asked to negotiate for 30: if nothing came it had a timeout
\* itself, and if the line is not up it was asked, but for a fault.
WaitABit(e) ==
    /\ Idle(e)
    /\ e = Device
    /\ ~status[e].resetNeeded
    /\ ~status[e].negotiateComplete
    /\ LongTimeout
    /\ running' = [running EXCEPT ![e] = "deaf"]
    /\ UNCHANGED <<status, calls, rx, baud, al, requests>>

WaitEnds(e) ==
    /\ running[e] = "deaf"
    /\ status[Peer(e)].state # "NORMAL" \/ status[Peer(e)].resetNeeded
    /\ running' = [running EXCEPT ![e] = "idle"]
    /\ UNCHANGED <<status, calls, rx, baud, al, budgets>>

\* AbortPendingRequest, when no response came in time; a message may take its
\* receiver longer.
RequestTimesOut(e) ==
    /\ Polled(e)
    /\ status[e].pending # "none"
    /\ status[e].state # "INIT"
    /\ LongTimeout
    /\ status' = [status EXCEPT ![e] = Clear(@)]
    /\ IF status[e].pending = "send"
       THEN /\ al' = [al EXCEPT ![e] = NoteFailedSend(@)]
            /\ calls' = [calls EXCEPT ![e] = RestartSend(al[e])]
       ELSE /\ al' = [al EXCEPT ![e] = NoteFailure(@)]
            /\ UNCHANGED calls
    /\ UNCHANGED <<running, rx, baud, requests>>

-----------------------------------------------------------------------------
\* The data link.

\* The communication module is not in the state to send keep alives and neither end
\* has anything to send.
LineIsQuiet ==
    /\ status[CommModule].state = "DISCONNECTED"
    /\ ~MustGetConfig(status[CommModule])
    /\ \A e \in Ends :
          /\ Polled(e)
          /\ DueRequests(status[e]) = {}
          /\ ~status[e].resetNeeded
          /\ status[e].state # "INIT"

\* A mutation of TrafficTimeout: the line keeps its speed.
TrafficTimeoutKeepingBaud(e) ==
    /\ Polled(e)
    /\ ~status[e].resetNeeded
    /\ status[e].state \in {"DISCONNECTED", "NORMAL"}
    /\ IF LineIsUsable /\ ~LineIsQuiet THEN Fault ELSE Timeout
    /\ status' = [status EXCEPT ![e] = ResetLink(@)]
    /\ UNCHANGED <<running, calls, rx, baud, al, requests>>

\* C1222DL_Run and ResetLink: nothing was acknowledged for 6 seconds.
TrafficTimeout(e) ==
    /\ Polled(e)
    /\ ~status[e].resetNeeded
    /\ status[e].state \in {"DISCONNECTED", "NORMAL"}
    /\ IF LineIsUsable /\ ~LineIsQuiet THEN Fault ELSE Timeout
    /\ status' = [status EXCEPT ![e] = ResetLink(@)]
    /\ baud' = [baud EXCEPT ![e] = DefaultBaud]
    /\ UNCHANGED <<running, calls, rx, al, requests>>

\* C1222TL_DLNoteKeepAliveReceived, or 15 seconds passed.
InhibitionEnds(e) ==
    /\ status[e].inhibited
    /\ LongTimeout
    /\ status' = [status EXCEPT ![e].inhibited = FALSE]
    /\ UNCHANGED <<running, calls, rx, baud, al, requests>>

-----------------------------------------------------------------------------
\* The application layers and their environment.

Counted ==
    /\ requests < MaxRequests
    /\ requests' = requests + 1
    /\ UNCHANGED faults

\* C1222AL_SendMessage, once the transport is not busy.
SendMessage(e) ==
    /\ Idle(e)
    /\ ~IsBusy(e)
    /\ Counted
    /\ al' = [al EXCEPT ![e] = [@ EXCEPT !.starting = TRUE, !.tries = 1]]
    /\ calls' = [calls EXCEPT ![e] = <<Call(Send)>>]
    /\ UNCHANGED <<status, running, rx, baud>>

\* DeviceSendingMessage, CommModuleSendingMessage: the message takes too long.
SendTimesOut(e) ==
    /\ Polled(e)
    /\ al[e].state = "sending"
    /\ Timeout
    /\ al' = [al EXCEPT ![e] = NoteFailedSend(@)]
    /\ calls' = [calls EXCEPT ![e] = RestartSend(al[e])]
    /\ UNCHANGED <<status, running, rx, baud, requests>>

\* C1222TL_SendPendingSendMessageOKResponse, when a message has been handled.
SendOKResponse(e) ==
    /\ Idle(e)
    /\ status[e].okOwed
    /\ status' = [status EXCEPT ![e].okOwed = FALSE]
    /\ Answer(e, "OK", "send")
    /\ UNCHANGED <<running, rx, baud, al, budgets>>

\* C1222TL_SendLinkControlRequest and C1222TL_SendGetStatusRequest: DeviceIdleState asks
\* for the status, and turns registration off, with a request pending.  A request for the
\* status is delayed while the device shall be quiet.
DeviceRequest(m) ==
    /\ Idle(Device)
    /\ IsReady(Device)
    /\ al[Device].state = "idle"
    /\ m \in {Control("reset"), Control("reload")} => ~IsBusy(Device)
    /\ Counted
    /\ IF m = GetStatus /\ status[Device].inhibited
       THEN status' = [status EXCEPT ![Device] = Delayed(@, m)] /\ UNCHANGED calls
       ELSE calls' = [calls EXCEPT ![Device] = <<Call(m)>>] /\ UNCHANGED status
    /\ UNCHANGED <<running, rx, baud, al>>

\* C1222TL_InhibitOptionalCommunication: the device has registered, or has a new
\* configuration.
InhibitOptionalCommunication ==
    /\ Idle(Device)
    /\ ~status[Device].inhibited
    /\ Counted
    /\ status' = [status EXCEPT ![Device].inhibited = TRUE]
    /\ UNCHANGED <<running, calls, rx, baud, al>>

\* C1222Stack_ResetTransport, C1222Stack_CommModuleResetOnInterrupt.
ResetRequested(e) ==
    /\ "reset" \in Restarts
    /\ ~status[e].resetNeeded
    /\ Counted
    /\ status' = [status EXCEPT ![e].resetNeeded = TRUE]
    /\ UNCHANGED <<running, calls, rx, baud, al>>

\* C1222TL_NotePowerUp of the device.
NotePowerUp ==
    /\ "powerUp" \in Restarts
    /\ Idle(Device)
    /\ Counted
    /\ status' = [status EXCEPT ![Device] =
          [@ EXCEPT !.commModulePresent = FALSE,
                    !.negotiateComplete = FALSE,
                    !.pending = "none",
                    !.delayed = {},
                    !.state = "INIT",
                    !.inhibited = TRUE]]
    /\ baud' = [baud EXCEPT ![Device] = DefaultBaud]
    /\ UNCHANGED <<running, calls, rx, al>>

\* The communication module starts anew: C1222TL_Init.
Reboot ==
    /\ "reboot" \in Restarts
    /\ Counted
    /\ status' = [status EXCEPT ![CommModule] = InitialStatus(CommModule)]
    /\ running' = [running EXCEPT ![CommModule] = "idle"]
    /\ calls' = [calls EXCEPT ![CommModule] = <<>>]
    /\ rx' = [rx EXCEPT ![CommModule] = NoMessage]
    /\ baud' = [baud EXCEPT ![CommModule] = DefaultBaud]
    /\ al' = [al EXCEPT ![CommModule] = NotSending]

-----------------------------------------------------------------------------
Run(e) ==
    \/ HandleReceived(e)
    \/ RunReset(e)
    \/ RunInit(e)
    \/ RunNeedConfig(e)

Next ==
    \/ \E e \in Ends :
          \/ CallEnds(e)
          \/ Run(e)
          \/ RunDisconnected(e)
          \/ HandleDelayedRequests(e)
          \/ FailureIsDue(e)
          \/ WaitABit(e)
          \/ WaitEnds(e)
          \/ RequestTimesOut(e)
          \/ TrafficTimeout(e)
          \/ InhibitionEnds(e)
          \/ SendMessage(e)
          \/ SendTimesOut(e)
          \/ SendOKResponse(e)
          \/ ResetRequested(e)
    \/ \E m \in DeviceRequests : DeviceRequest(m)
    \/ InhibitOptionalCommunication
    \/ NotePowerUp
    \/ Reboot

Spec == Init /\ [][Next]_vars

\* Both stacks are polled, calls return, and time passes.
Proceed(e) == CallEnds(e) \/ Run(e) \/ WaitEnds(e)

FairSpec ==
    /\ Spec
    /\ WF_vars(Next)
    /\ \A e \in Ends :
          /\ WF_vars(Proceed(e))
          /\ SF_vars(HandleDelayedRequests(e))
          /\ SF_vars(TrafficTimeout(e))

-----------------------------------------------------------------------------
Statuses ==
    [state : {"INIT", "DISCONNECTED", "NEEDCONFIG", "NORMAL"},
     pending : Kinds \cup {"none"},
     delayed : SUBSET RequestMessages,
     resetNeeded : BOOLEAN,
     negotiateComplete : BOOLEAN,
     haveConfiguration : BOOLEAN,
     commModulePresent : BOOLEAN,
     okOwed : BOOLEAN,
     failureOwed : BOOLEAN,
     inhibited : BOOLEAN]

TypeOK ==
    /\ status \in [Ends -> Statuses]
    /\ running \in [Ends -> {"idle", "resetting", "deaf"}]
    /\ calls \in [Ends -> Seq([message : Messages, received : BOOLEAN])]
    /\ rx \in [Ends -> Messages \cup {NoMessage}]
    /\ baud \in [Ends -> Bauds]
    /\ al \in [Ends -> [state : {"idle", "sending"}, starting : BOOLEAN, tries : {0, 1}]]
    /\ faults \in 0..MaxFaults
    /\ requests \in 0..MaxRequests

\* The line is alive, the device has negotiated, and nothing is left to do: no call, no
\* message to handle, no request pending or delayed, no reset.
Settled ==
    /\ LineIsAlive
    /\ ~InProgress
    /\ status[Device].negotiateComplete
    /\ \A e \in Ends :
          /\ Polled(e)
          /\ status[e].pending = "none"
          /\ status[e].delayed = {}

\* On such a link the device may send, and the communication module has its
\* configuration: C1222TL_Run never comes to rest with the negotiation half done.
LinkIsUp == Settled => ~IsBusy(Device) /\ status[CommModule].haveConfiguration

\* Both ends may send, at one speed, and stay so.
LinkIsBroughtUp ==
    <>[](/\ \A e \in Ends : status[e].state = "NORMAL" /\ IsReady(e)
         /\ baud[Device] = baud[CommModule])

\* With at most two calls that fail or timeouts that fire too early, and one request or
\* restart, at any moment and in each other's recovery, C1222TL_Run at both ends brings
\* the link up.  It is no more than that: with two faults and two requests a module may
\* stay without negotiation, as the negotiate request that is due "once in a while" is
\* never repeated.
LinkComesUp == [](faults <= 2 /\ requests <= 1) => LinkIsBroughtUp

\* The application layer does not stay in the state sending, whatever becomes of the
\* message, of the answer to it and of the link.
SendEnds == \A e \in Ends : al[e].state = "sending" ~> al[e].state = "idle"

=============================================================================
