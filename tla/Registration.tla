----------------------------- MODULE Registration -----------------------------
(***************************************************************************)
(* How a device registers at its master relay, keeps the registration and   *)
(* gives it up: c1222al_device.c with the handlers of c1222al.c and          *)
(* c1222al_tlinterface.c that change the same flags.                        *)
(*                                                                         *)
(* Time is not modelled: a delay may have passed at any step, so every       *)
(* comparison with a clock is a choice.  A message is sent whole: the tries  *)
(* of a send are in MessageSender, its transport in Transport.  A device     *)
(* whose transport is not ready, or that waits for the interface's           *)
(* information or for automatic registration to be off, only polls its       *)
(* transport: it takes none of the steps of DeviceIdleState here.            *)
(*                                                                         *)
(* The configuration has an ApTitle or a serial number of legal length       *)
(* (ConfigurationIsRegisterable) and the device has received it.             *)
(***************************************************************************)
EXTENDS Naturals, FiniteSets

CONSTANTS
    Periods,      \* what a relay may grant: {"some"}, or "none" for no refresh
    MaxFaults,    \* bound: failed sends and links, losses, refusals, early timeouts, outages
    MaxCalls      \* bound: calls of the application and messages that are not registration's

ASSUME BoundAssumption ==
    Periods # {} /\ Periods \subseteq {"none", "some"} /\ MaxFaults \in Nat /\ MaxCalls \in Nat

VARIABLES
    p,            \* the device: what C1222AL's status says of registration
    network,      \* requests and responses on their way, in no order
    faults,
    calls

vars == <<p, network, faults, calls>>

-----------------------------------------------------------------------------
(* A request is known by the invocation id it was given: "current" is the    *)
(* registrationRequestApInvocationId, "last" the one before it and           *)
(* "deregister" the deRegistrationRequestApInvocationId.  `awaited` holds     *)
(* the ids that are not 0.                                                   *)
Requests == {"current", "last", "deregister"}
Nothing  == "nothing"
States   == {"idle", "sending", "registering", "deregistering"}

\* The procedures 23 and 24 of the application, and 25: one record is kept for the three.
Polled     == {"RegisterNow", "DeRegisterNow"}
Procedures == Polled \cup {"LinkControl"}

Node ==
    [ state                    : States,
      sending                  : {Nothing, "current", "deregister", "other"},
      halfSent                 : BOOLEAN,  \* the message sender has segments and tries left
      linkControl              : {Nothing, "asked", "lost"},  \* linkControlRunning unless Nothing
      isRegistered             : BOOLEAN,
      period                   : {"none", "some"},
      waitingToRegister        : BOOLEAN,
      timeToRegister           : BOOLEAN,
      registrationInProgress   : BOOLEAN,
      doNotRegister            : BOOLEAN,
      timeToDeRegister         : BOOLEAN,
      deRegistrationInProgress : BOOLEAN,
      awaited                  : SUBSET Requests,
      isSynchronized           : BOOLEAN,
      configurationChanged     : BOOLEAN,
      procedure                : {Nothing} \cup Procedures,
      procedureState           : {"idle", "running", "complete"} ]

Message == [of : Requests, is : {"request", "OK", "refused"}]

InitialNode ==
    [ state |-> "idle", sending |-> Nothing, halfSent |-> FALSE, linkControl |-> Nothing,
      isRegistered |-> FALSE, period |-> "none", waitingToRegister |-> FALSE,
      timeToRegister |-> FALSE, registrationInProgress |-> FALSE, doNotRegister |-> FALSE,
      timeToDeRegister |-> FALSE, deRegistrationInProgress |-> FALSE, awaited |-> {},
      isSynchronized |-> FALSE, configurationChanged |-> TRUE,
      procedure |-> Nothing, procedureState |-> "idle" ]

Init ==
    /\ p = InitialNode
    /\ network = {}
    /\ faults = 0
    /\ calls = 0

\* A step that needs luck, or a call: both are bounded.
Fault == faults < MaxFaults /\ faults' = faults + 1 /\ UNCHANGED calls
Called == calls < MaxCalls /\ calls' = calls + 1 /\ UNCHANGED faults
NoFault == UNCHANGED <<faults, calls>>

-----------------------------------------------------------------------------
(* Operators on the device *)

IsBusy(n) ==
    n.state # "idle" \/ n.sending # Nothing \/ n.halfSent \/ n.linkControl # Nothing

RegistrationIsAllowed(n) == ~n.doNotRegister

\* NoteRegistrationAttemptComplete and its twin for deregistration are equal.
NoteAttemptComplete(n) ==
    IF n.procedureState = "idle" THEN n ELSE [n EXCEPT !.procedureState = "complete"]

SendMessage(n, message) ==
    [n EXCEPT !.state = "sending", !.sending = message, !.halfSent = FALSE]

NoteLinkFailure(n) == [n EXCEPT !.state = "idle"]

\* A registration request takes the next id; the id of the one before is kept.
MakeRegistrationMessage(n) ==
    [n EXCEPT !.awaited = (@ \cap {"deregister"}) \cup {"current"}
                              \cup (IF "current" \in @ THEN {"last"} ELSE {})]

\* A mutation of MakeDeRegistrationMessage: the id is not stored.
IdIsNotKept(n) == n

MakeDeRegistrationMessage(n) == [n EXCEPT !.awaited = @ \cup {"deregister"}]

\* A mutation of Renamed: requests older than the last are still told apart.
OlderAreKept(messages, request) ==
    IF request = "deregister" THEN {m \in messages : m.of # "deregister"}
    ELSE {m \in messages : m.of = "deregister"}
             \cup {[m EXCEPT !.of = IF @ = "current" THEN "last" ELSE "older"] :
                       m \in {m \in messages : m.of # "deregister"}}

\* What is on its way under the names of before the new request.
Renamed(messages, request) ==
    IF request = "deregister" THEN {m \in messages : m.of # "deregister"}
    ELSE {m \in messages : m.of = "deregister"}
             \cup {[m EXCEPT !.of = "last"] : m \in {m \in messages : m.of = "current"}}

RestartNormalRegistrationProcess(n) ==
    [n EXCEPT !.isRegistered = FALSE, !.configurationChanged = TRUE, !.state = "idle"]

-----------------------------------------------------------------------------
(* The device's own steps: RunDevice *)

\* A mutation of CanRegister: an unregistered device waits to be told.
OnlyWhenTold ==
    /\ p.state = "idle"
    /\ p.isSynchronized
    /\ RegistrationIsAllowed(p)
    /\ p.timeToRegister

CanRegister ==
    /\ p.state = "idle"
    /\ p.isSynchronized
    /\ RegistrationIsAllowed(p)
    /\ p.timeToRegister \/ ~p.isRegistered

\* DeviceHandleRegistrationScheduling; `due` says that both delays have passed.
RegistrationScheduled(n, due) ==
    [n EXCEPT !.timeToRegister =
        @ \/ (~IsBusy(n) /\ ~n.registrationInProgress /\ ~n.isRegistered /\ due)]

SendRegistrationRequest(n) ==
    LET made == [MakeRegistrationMessage(n) EXCEPT !.timeToRegister = FALSE]
    IN  /\ network' = Renamed(network, "current")
        /\ \/ /\ p' = [SendMessage(made, "current") EXCEPT !.registrationInProgress = TRUE]
              /\ NoFault
           \/ /\ p' = NoteAttemptComplete(made)
              /\ Fault

HandleRegistration(due) ==
    /\ CanRegister
    /\ LET scheduled == RegistrationScheduled([p EXCEPT !.waitingToRegister = FALSE], due)
       IN  IF scheduled.timeToRegister /\ ~IsBusy(scheduled)
           THEN SendRegistrationRequest(scheduled)
           ELSE p' = scheduled /\ UNCHANGED network /\ NoFault

\* The device notices that it is not synchronized and puts registration off.
NoteUnsynchronized ==
    /\ p.state = "idle"
    /\ ~p.isSynchronized
    /\ p' = [p EXCEPT !.timeToRegister = FALSE]
    /\ UNCHANGED network /\ NoFault

\* Nothing to register and nothing else to do first.
IsAtRest ==
    /\ p.state = "idle"
    /\ p.isSynchronized
    /\ ~CanRegister
    /\ ~IsBusy(p)
    /\ ~p.configurationChanged

IsWaitingToRegister == p.waitingToRegister /\ RegistrationIsAllowed(p)
MustDeRegister == p.timeToDeRegister \/ p.deRegistrationInProgress

\* After a power failure: the period or the delay the relay asked for has passed.
WaitingToRegisterEnds ==
    /\ IsAtRest
    /\ IsWaitingToRegister
    /\ p' = [p EXCEPT !.timeToRegister = TRUE]
    /\ UNCHANGED network /\ NoFault

\* A request that cannot be sent is noted twice, as BSY and then as ERR.
SendDeRegistrationRequest ==
    LET made == [MakeDeRegistrationMessage(p) EXCEPT !.timeToDeRegister = FALSE]
    IN  /\ network' = Renamed(network, "deregister")
        /\ \/ /\ p' = [SendMessage(made, "deregister") EXCEPT !.deRegistrationInProgress = TRUE]
              /\ NoFault
           \/ /\ p' = NoteAttemptComplete(NoteAttemptComplete(made))
              /\ Fault

\* DeviceHandleDeRegistration: the request, or once the delay has passed the next try.
HandleDeRegistration ==
    /\ IsAtRest
    /\ ~IsWaitingToRegister
    /\ MustDeRegister
    /\ IF p.timeToDeRegister
       THEN SendDeRegistrationRequest
       ELSE p' = [p EXCEPT !.timeToDeRegister = TRUE] /\ UNCHANGED network /\ NoFault

\* DeviceHandleKeepAliveRegistration when the count down has ended.
KeepAlive ==
    /\ IsAtRest
    /\ ~IsWaitingToRegister
    /\ ~MustDeRegister
    /\ p.isRegistered
    /\ p.period # "none"
    /\ p' = [p EXCEPT !.timeToRegister = TRUE]
    /\ UNCHANGED network /\ NoFault

\* A timeout that passes while a message of this kind is on its way is bounded.
PassesEarly(requests) ==
    /\ IF \E m \in network : m.of \in requests THEN Fault ELSE NoFault
    /\ UNCHANGED network

\* DeviceWaitForRegistrationResponse: the delay between tries, then the minute.
RegistrationTimesOut ==
    /\ p.state = "registering"
    /\ p' = [p EXCEPT !.timeToRegister = TRUE, !.state = "idle",
                      !.registrationInProgress = FALSE]
    /\ PassesEarly({"current", "last"})

RegistrationIsGivenUp ==
    /\ p.state = "registering"
    /\ p' = NoteAttemptComplete([p EXCEPT !.state = "idle", !.registrationInProgress = FALSE])
    /\ PassesEarly({"current", "last"})

\* DeviceWaitForDeRegistrationResponse.
DeRegistrationTimesOut ==
    /\ p.state = "deregistering"
    /\ p' = [p EXCEPT !.timeToDeRegister = TRUE, !.state = "idle",
                      !.deRegistrationInProgress = FALSE]
    /\ PassesEarly({"deregister"})

DeRegistrationIsGivenUp ==
    /\ p.state = "deregistering"
    /\ p' = NoteAttemptComplete([p EXCEPT !.state = "idle", !.deRegistrationInProgress = FALSE])
    /\ PassesEarly({"deregister"})

-----------------------------------------------------------------------------
(* Sending, as far as registration depends on it *)

\* The last segment's response: ContinueMessageSend.
AfterSend(n) ==
    [n EXCEPT !.sending = Nothing,
              !.state = IF n.registrationInProgress THEN "registering"
                        ELSE IF n.deRegistrationInProgress THEN "deregistering" ELSE "idle"]

OnItsWay(message) ==
    IF message = "other" THEN {} ELSE {[of |-> message, is |-> "request"]}

SendSucceeds ==
    /\ p.sending # Nothing
    /\ p' = AfterSend(p)
    /\ network' = network \cup OnItsWay(p.sending)
    /\ NoFault

\* All tries have failed, or the link has, whether or not the message got through.  A
\* message of several segments may be left in the sender with tries left.
SendFails ==
    /\ p.sending # Nothing
    /\ \E left \in (IF p.sending = "other" THEN BOOLEAN ELSE {FALSE}) :
         p' = NoteLinkFailure([p EXCEPT !.sending = Nothing, !.halfSent = left])
    /\ network' \in {network, network \cup OnItsWay(p.sending)}
    /\ Fault

\* A request of the transport's own fails or the link is reset: linkControlRunning stays.
LinkFails ==
    /\ p.sending = Nothing
    /\ p' = NoteLinkFailure([p EXCEPT !.linkControl = IF @ = "asked" THEN "lost" ELSE @])
    /\ UNCHANGED network
    /\ Fault

\* The device answers or asks something else; waitForTransport has returned.
SendOther ==
    /\ p.sending = Nothing
    /\ p.linkControl # "asked"
    /\ p' = SendMessage(p, "other")
    /\ UNCHANGED network
    /\ Called

-----------------------------------------------------------------------------
(* The relay and the network *)

Answer(m, is) == (network \ {m}) \cup {[m EXCEPT !.is = is]}

RelayAccepts(m) ==
    m.is = "request" /\ network' = Answer(m, "OK") /\ UNCHANGED p /\ NoFault

RelayRefuses(m) ==
    m.is = "request" /\ network' = Answer(m, "refused") /\ UNCHANGED p /\ Fault

IsLost(m) == network' = network \ {m} /\ UNCHANGED p /\ Fault

\* A mutation of Completed: a response is no result.
ResultIsNotNoted(n, inProgress) == n

Completed(n, inProgress) == IF inProgress THEN NoteAttemptComplete(n) ELSE n

\* A mutation of Registered: the device goes on waiting.
StateIsKept(period) ==
    LET n == [p EXCEPT !.isRegistered = TRUE, !.period = period,
                       !.awaited = @ \cap {"deregister"}, !.configurationChanged = TRUE,
                       !.registrationInProgress = FALSE]
    IN  Completed(n, p.registrationInProgress)

\* C1222AL_HandleRegistrationResponse with C1222AL_SetRegisteredStatus.
Registered(period) ==
    LET n == [p EXCEPT !.isRegistered = TRUE, !.period = period,
                       !.awaited = @ \cap {"deregister"}, !.configurationChanged = TRUE,
                       !.state = "idle", !.registrationInProgress = FALSE]
    IN  Completed(n, p.registrationInProgress)

\* A refused registration is noted when a DEregistration is in progress.
RegistrationRefused == Completed(p, p.deRegistrationInProgress)

DeRegistered ==
    LET n == [RestartNormalRegistrationProcess(p) EXCEPT
                 !.awaited = @ \ {"deregister"}, !.deRegistrationInProgress = FALSE]
    IN  Completed(n, p.deRegistrationInProgress)

DeRegistrationRefused == Completed(p, p.deRegistrationInProgress)

HandleRegistrationResponse(m) ==
    /\ m.of \in {"current", "last"} \cap p.awaited
    /\ \/ m.is = "OK" /\ \E period \in Periods : p' = Registered(period)
       \/ m.is = "refused" /\ p' = RegistrationRefused

HandleDeRegistrationResponse(m) ==
    /\ m.of \in {"deregister"} \cap p.awaited
    /\ p' = IF m.is = "OK" THEN DeRegistered ELSE DeRegistrationRefused

\* A message of an id that is not awaited is the application's, which ignores it.
ReceiveResponse(m) ==
    /\ m.is # "request"
    /\ \/ HandleRegistrationResponse(m)
       \/ HandleDeRegistrationResponse(m)
       \/ m.of \notin p.awaited /\ UNCHANGED p
    /\ network' = network \ {m}
    /\ NoFault

-----------------------------------------------------------------------------
(* What the communication module tells *)

Synchronizes ==
    /\ ~p.isSynchronized
    /\ p' = [p EXCEPT !.isSynchronized = TRUE]
    /\ UNCHANGED network /\ NoFault

SynchronizationIsLost ==
    /\ p.isSynchronized
    /\ p' = [p EXCEPT !.isSynchronized = FALSE]
    /\ UNCHANGED network /\ Fault

CellChanges ==
    /\ p' = [p EXCEPT !.isRegistered = FALSE]
    /\ UNCHANGED network /\ Fault

NoteConfigurationSent ==
    /\ p.configurationChanged
    /\ p' = [p EXCEPT !.configurationChanged = FALSE]
    /\ UNCHANGED network /\ NoFault

\* A refused link control is a link failure as well.
LinkControlResponse ==
    /\ p.linkControl = "asked"
    /\ \/ p' = [p EXCEPT !.linkControl = Nothing] /\ NoFault
       \/ p' = NoteLinkFailure([p EXCEPT !.linkControl = Nothing]) /\ Fault
    /\ UNCHANGED network

-----------------------------------------------------------------------------
(* What the application calls, and power failures *)

RegisterNow ==
    /\ p.isSynchronized
    /\ ~p.registrationInProgress
    /\ p' = [p EXCEPT !.timeToRegister = TRUE, !.doNotRegister = FALSE,
                      !.waitingToRegister = FALSE,
                      !.procedure = "RegisterNow", !.procedureState = "running"]
    /\ UNCHANGED network /\ Called

DeRegisterNow ==
    /\ p.isSynchronized
    /\ ~p.registrationInProgress
    /\ ~p.deRegistrationInProgress
    /\ p.isRegistered \/ ~p.doNotRegister
    /\ p' = [p EXCEPT !.timeToDeRegister = TRUE,
                      !.procedure = "DeRegisterNow", !.procedureState = "running"]
    /\ UNCHANGED network /\ Called

\* What RegisterNow or DeRegisterNow is answered when its result is polled.
Result(procedure) ==
    IF p.procedureState = "idle" \/ p.procedure # procedure THEN "IAR"
    ELSE IF p.procedureState = "running" THEN "BSY" ELSE "result"

\* Each result is given for its own procedure, and once.
GetResult(procedure) ==
    /\ Result(procedure) = "result"
    /\ p' = [p EXCEPT !.procedureState = "idle"]
    /\ UNCHANGED network /\ NoFault

\* Procedure 25 and the disconnect request: `interface` is the interface control.  The
\* procedure becomes this one whatever the record was of; its state is left alone.
SendLinkControl(interface) ==
    /\ ~IsBusy(p)
    /\ p.isSynchronized
    /\ p' = [p EXCEPT !.linkControl = "asked", !.procedure = "LinkControl",
                      !.doNotRegister = IF interface = "enable" THEN FALSE
                                        ELSE IF interface = "disable" THEN TRUE ELSE @]
    /\ UNCHANGED network /\ Called

\* A changed configuration: of something the relay knows, or not.
SetConfiguration(needToReregister) ==
    /\ p' = [p EXCEPT !.isRegistered = @ /\ ~needToReregister,
                      !.waitingToRegister = @ /\ ~needToReregister,
                      !.configurationChanged = TRUE]
    /\ UNCHANGED network /\ Called

\* The server handles a deregistration request, which it refuses when not registered.
HandleDeRegisterRequest ==
    /\ p.isRegistered
    /\ p' = [RestartNormalRegistrationProcess(p) EXCEPT !.deRegistrationInProgress = FALSE]
    /\ UNCHANGED network /\ Called

\* `soon`: there is time left until the registration has to be renewed.
NotePowerUp(soon) ==
    /\ p' = [p EXCEPT !.timeToRegister = FALSE, !.procedureState = "idle",
                      !.isSynchronized = FALSE,
                      !.waitingToRegister = @ \/ (p.isRegistered /\ p.period # "none" /\ soon)]
    /\ UNCHANGED network /\ Fault

\* After a firmware download only the ids and the registration are kept.
ReInit ==
    /\ p' = [InitialNode EXCEPT !.isRegistered = p.isRegistered, !.period = p.period,
                                !.waitingToRegister = p.waitingToRegister,
                                !.doNotRegister = p.doNotRegister, !.awaited = p.awaited,
                                !.configurationChanged = FALSE]
    /\ UNCHANGED network /\ Fault

-----------------------------------------------------------------------------
DeviceRuns ==
    \/ \E due \in BOOLEAN : HandleRegistration(due)
    \/ NoteUnsynchronized \/ WaitingToRegisterEnds \/ HandleDeRegistration \/ KeepAlive
    \/ RegistrationTimesOut \/ RegistrationIsGivenUp
    \/ DeRegistrationTimesOut \/ DeRegistrationIsGivenUp

Network ==
    \E m \in network : RelayAccepts(m) \/ RelayRefuses(m) \/ IsLost(m) \/ ReceiveResponse(m)

Link == SendSucceeds \/ SendFails \/ LinkFails

Module ==
    Synchronizes \/ SynchronizationIsLost \/ CellChanges \/ NoteConfigurationSent
        \/ LinkControlResponse

Application ==
    \/ SendOther \/ RegisterNow \/ DeRegisterNow \/ HandleDeRegisterRequest
    \/ \E procedure \in Polled : GetResult(procedure)
    \/ \E interface \in {"enable", "disable", "keep"} : SendLinkControl(interface)
    \/ \E needToReregister \in BOOLEAN : SetConfiguration(needToReregister)

Outage == ReInit \/ \E soon \in BOOLEAN : NotePowerUp(soon)

Next == DeviceRuns \/ Network \/ Link \/ Module \/ Application \/ Outage

Spec == Init /\ [][Next]_vars

(***************************************************************************)
(* The loop polls the device and time passes; the module reports, fetches    *)
(* the configuration and answers; a message that is not lost arrives and is  *)
(* answered.  Nothing is fair about faults and calls.                        *)
(***************************************************************************)
Fairness ==
    /\ WF_vars(HandleRegistration(TRUE))
    /\ WF_vars(WaitingToRegisterEnds \/ HandleDeRegistration \/ KeepAlive)
    /\ WF_vars(RegistrationTimesOut \/ RegistrationIsGivenUp
                 \/ DeRegistrationTimesOut \/ DeRegistrationIsGivenUp)
    /\ WF_vars(SendSucceeds)
    /\ WF_vars(\E m \in network : RelayAccepts(m) \/ ReceiveResponse(m))
    /\ WF_vars(Synchronizes \/ NoteConfigurationSent)
    /\ WF_vars(LinkControlResponse)

FairSpec == Spec /\ Fairness

-----------------------------------------------------------------------------
(* Properties *)

\* The device's flags keep their types, the network carries registration's messages, and
\* the bounds hold.
TypeOK ==
    /\ p \in Node
    /\ network \subseteq Message
    /\ faults \in 0 .. MaxFaults
    /\ calls \in 0 .. MaxCalls

(* A device that waits for a response has a request in progress, whatever      *)
(* responses, outages, deregistrations and sends change its state meanwhile:   *)
(* RunDevice waits in a state only for what the flags say is in progress.      *)
WaitsForItsRequest ==
    /\ p.state = "registering" => p.registrationInProgress
    /\ p.state = "deregistering" => p.deRegistrationInProgress

(* What a failed link may leave behind: a request in progress that nobody      *)
(* waits for, half a message in the sender, or a link control without answer.  *)
IsAbandoned ==
    \/ p.state = "idle" /\ p.sending = Nothing /\ p.registrationInProgress
    \/ p.halfSent
    \/ p.linkControl = "lost"

(* A device that loses its registration registers again, through refused,      *)
(* late and lost messages, outages and cell changes, unless it was told not to *)
(* or a failure abandoned it.                                                  *)
RegistersUnlessAbandoned ==
    ~p.isRegistered ~> (p.isRegistered \/ p.doNotRegister \/ IsAbandoned)

(* A deregistration that was asked for comes to an end.                        *)
DeRegistrationEnds ==
    MustDeRegister ~> (~MustDeRegister \/ IsAbandoned)

(* A device that lost synchronization forgets the registration it was told to  *)
(* make, and never makes another one when it need not refresh.                  *)
IsForgotten ==
    /\ p.isRegistered /\ p.period = "none"
    /\ ~p.timeToRegister /\ ~p.registrationInProgress /\ ~MustDeRegister

(* A link control took the record of the procedure, and the poll for the one    *)
(* that was running is answered IAR.                                           *)
IsForeign == p.procedure = "LinkControl"

(* A registration or deregistration that the application started comes to a    *)
(* result that it is given when it polls, through late responses, refusals,     *)
(* outages and a second call, which may be the one the result is of.  A power   *)
(* failure forgets the procedure, and a link control takes its record over.    *)
ProcedureEnds ==
    (\E procedure \in Polled : Result(procedure) = "BSY")
        ~> \/ \E procedure \in Polled : Result(procedure) = "result"
           \/ p.procedureState = "idle" \/ IsForeign
           \/ p.doNotRegister \/ IsAbandoned \/ IsForgotten

(* Comment in DeviceHandleRegistrationScheduling: if not registered, better    *)
(* register.                                                                   *)
Registers == ~p.isRegistered ~> (p.isRegistered \/ p.doNotRegister)

=============================================================================
