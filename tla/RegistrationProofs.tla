-------------------------- MODULE RegistrationProofs --------------------------
(***************************************************************************)
(* For every bound on faults and calls: the device's flags keep their types, *)
(* and it waits only for a request that is in progress.                      *)
(***************************************************************************)
EXTENDS Registration, TLAPS

Inv == TypeOK /\ WaitsForItsRequest

\* Initially nothing is awaited.
LEMMA InitInv == Init => Inv
  BY BoundAssumption DEF Init, Inv, TypeOK, WaitsForItsRequest, InitialNode, Node, Requests,
     States, Nothing, Message

\* A fault or a call keeps the bounds.
LEMMA BudgetsType ==
  ASSUME faults \in 0 .. MaxFaults, calls \in 0 .. MaxCalls, Fault \/ Called \/ NoFault
  PROVE  faults' \in 0 .. MaxFaults /\ calls' \in 0 .. MaxCalls
  BY BoundAssumption DEF Fault, Called, NoFault

Waits(n) ==
    /\ n.state = "registering" => n.registrationInProgress
    /\ n.state = "deregistering" => n.deRegistrationInProgress

\* An attempt that is complete changes the procedure's state only.
LEMMA NoteAttemptCompleteType ==
  ASSUME NEW n \in Node
  PROVE  /\ NoteAttemptComplete(n) \in Node
         /\ Waits(n) => Waits(NoteAttemptComplete(n))
  BY DEF NoteAttemptComplete, Node, Waits

\* What a registration is renamed to is still registration's.
LEMMA RenamedType ==
  ASSUME NEW messages \in SUBSET Message, NEW request \in Requests
  PROVE  Renamed(messages, request) \subseteq Message
  <1>1. CASE request = "deregister"
    BY <1>1 DEF Renamed
  <1>2. CASE request # "deregister"
    <2>1. \A m \in messages : [m EXCEPT !.of = "last"] \in Message
      BY DEF Message, Requests
    <2>2. QED
      BY <1>2, <2>1 DEF Renamed
  <1>3. QED
    BY <1>1, <1>2

\* A new id is one of the three, and making a request changes nothing else.
LEMMA MakeRegistrationMessageType ==
  ASSUME NEW n \in Node
  PROVE  /\ MakeRegistrationMessage(n) \in Node
         /\ MakeRegistrationMessage(n).state = n.state
  BY DEF MakeRegistrationMessage, Node, Requests

LEMMA MakeDeRegistrationMessageType ==
  ASSUME NEW n \in Node
  PROVE  /\ MakeDeRegistrationMessage(n) \in Node
         /\ MakeDeRegistrationMessage(n).state = n.state
  BY DEF MakeDeRegistrationMessage, Node, Requests

-----------------------------------------------------------------------------
(* One lemma per group of actions *)

\* A request that is sent is in progress; one that is not leaves the device idle.
LEMMA SendRegistrationRequestInv ==
  ASSUME Inv, NEW n \in Node, n.state = "idle", n.sending = Nothing, SendRegistrationRequest(n)
  PROVE  Inv'
  <1> DEFINE made == [MakeRegistrationMessage(n) EXCEPT !.timeToRegister = FALSE]
  <1>1. MakeRegistrationMessage(n) \in Node /\ MakeRegistrationMessage(n).state = "idle"
    BY MakeRegistrationMessageType
  <1>2. made \in Node /\ made.state = "idle"
    BY <1>1 DEF Node
  <1> HIDE DEF made
  <1>3. network' \subseteq Message
    BY RenamedType DEF Inv, TypeOK, SendRegistrationRequest, Requests
  <1>4. CASE p' = [SendMessage(made, "current") EXCEPT !.registrationInProgress = TRUE] /\ NoFault
    <2>1. p' \in Node /\ p'.state = "sending"
      BY <1>2, <1>4 DEF SendMessage, Node, States, Nothing
    <2>2. QED
      BY <1>3, <1>4, <2>1, BudgetsType DEF Inv, TypeOK, WaitsForItsRequest
  <1>5. CASE p' = NoteAttemptComplete(made) /\ Fault
    <2>1. p' \in Node /\ Waits(p')
      BY <1>2, <1>5, NoteAttemptCompleteType DEF Waits
    <2>2. QED
      BY <1>3, <1>5, <2>1, BudgetsType DEF Inv, TypeOK, WaitsForItsRequest, Waits
  <1>6. QED
    BY <1>4, <1>5 DEF SendRegistrationRequest, made

LEMMA HandleRegistrationInv ==
  ASSUME Inv, NEW due \in BOOLEAN, HandleRegistration(due)
  PROVE  Inv'
  <1> DEFINE scheduled == RegistrationScheduled([p EXCEPT !.waitingToRegister = FALSE], due)
  <1>1. scheduled \in Node /\ scheduled.state = "idle"
    BY DEF HandleRegistration, CanRegister, RegistrationScheduled, IsBusy, Inv, TypeOK, Node
  <1> HIDE DEF scheduled
  <1>2. CASE scheduled.timeToRegister /\ ~IsBusy(scheduled)
    <2>1. SendRegistrationRequest(scheduled) /\ scheduled.sending = Nothing
      BY <1>2 DEF HandleRegistration, scheduled, IsBusy
    <2>2. QED
      BY <1>1, <2>1, SendRegistrationRequestInv
  <1>3. CASE ~(scheduled.timeToRegister /\ ~IsBusy(scheduled))
    <2>1. p' = scheduled /\ UNCHANGED network /\ NoFault
      BY <1>3 DEF HandleRegistration, scheduled
    <2>2. QED
      BY <1>1, <2>1, BudgetsType DEF Inv, TypeOK, WaitsForItsRequest
  <1>4. QED
    BY <1>2, <1>3

LEMMA SendDeRegistrationRequestInv ==
  ASSUME Inv, p.state = "idle", SendDeRegistrationRequest
  PROVE  Inv'
  <1> DEFINE made == [MakeDeRegistrationMessage(p) EXCEPT !.timeToDeRegister = FALSE]
  <1>1. MakeDeRegistrationMessage(p) \in Node /\ MakeDeRegistrationMessage(p).state = "idle"
    BY MakeDeRegistrationMessageType DEF Inv, TypeOK
  <1>2. made \in Node /\ made.state = "idle"
    BY <1>1 DEF Node
  <1> HIDE DEF made
  <1>3. network' \subseteq Message
    BY RenamedType DEF Inv, TypeOK, SendDeRegistrationRequest, Requests
  <1>4. CASE /\ p' = [SendMessage(made, "deregister") EXCEPT !.deRegistrationInProgress = TRUE]
             /\ NoFault
    <2>1. p' \in Node /\ p'.state = "sending"
      BY <1>2, <1>4 DEF SendMessage, Node, States, Nothing
    <2>2. QED
      BY <1>3, <1>4, <2>1, BudgetsType DEF Inv, TypeOK, WaitsForItsRequest
  <1>5. CASE p' = NoteAttemptComplete(NoteAttemptComplete(made)) /\ Fault
    <2>1. Waits(made)
      BY <1>2 DEF Waits
    <2>2. NoteAttemptComplete(made) \in Node /\ Waits(NoteAttemptComplete(made))
      BY <1>2, <2>1, NoteAttemptCompleteType
    <2>3. p' \in Node /\ Waits(p')
      BY <1>5, <2>2, NoteAttemptCompleteType
    <2>4. QED
      BY <1>3, <1>5, <2>3, BudgetsType DEF Inv, TypeOK, WaitsForItsRequest, Waits
  <1>6. QED
    BY <1>4, <1>5 DEF SendDeRegistrationRequest, made

\* The device's own steps: it stops waiting only by going to rest.
LEMMA DeviceRunsInv ==
  ASSUME Inv, DeviceRuns
  PROVE  Inv'
  <1> USE DEF Inv, TypeOK, WaitsForItsRequest
  <1>1. CASE \E due \in BOOLEAN : HandleRegistration(due)
    BY <1>1, HandleRegistrationInv
  <1>2. CASE NoteUnsynchronized \/ WaitingToRegisterEnds \/ KeepAlive
    BY <1>2, BudgetsType DEF NoteUnsynchronized, WaitingToRegisterEnds, KeepAlive, Node
  <1>3. CASE HandleDeRegistration
    <2>1. p.state = "idle"
      BY <1>3 DEF HandleDeRegistration, IsAtRest
    <2>2. CASE p.timeToDeRegister
      BY <1>3, <2>1, <2>2, SendDeRegistrationRequestInv DEF HandleDeRegistration
    <2>3. CASE ~p.timeToDeRegister
      BY <1>3, <2>1, <2>3, BudgetsType DEF HandleDeRegistration, Node
    <2>4. QED
      BY <2>2, <2>3
  <1>4. ASSUME NEW requests, PassesEarly(requests)
        PROVE  network' = network /\ faults' \in 0 .. MaxFaults /\ calls' \in 0 .. MaxCalls
    BY <1>4, BudgetsType DEF PassesEarly
  <1>5. CASE RegistrationTimesOut \/ DeRegistrationTimesOut
    BY <1>5, <1>4 DEF RegistrationTimesOut, DeRegistrationTimesOut, Node, States
  <1>6. CASE RegistrationIsGivenUp
    <2> DEFINE n == [p EXCEPT !.state = "idle", !.registrationInProgress = FALSE]
    <2>1. n \in Node /\ Waits(n)
      BY DEF Node, States, Waits
    <2>2. p' \in Node /\ Waits(p')
      BY <1>6, <2>1, NoteAttemptCompleteType DEF RegistrationIsGivenUp
    <2>3. QED
      BY <1>4, <1>6, <2>2 DEF RegistrationIsGivenUp, Waits
  <1>7. CASE DeRegistrationIsGivenUp
    <2> DEFINE n == [p EXCEPT !.state = "idle", !.deRegistrationInProgress = FALSE]
    <2>1. n \in Node /\ Waits(n)
      BY DEF Node, States, Waits
    <2>2. p' \in Node /\ Waits(p')
      BY <1>7, <2>1, NoteAttemptCompleteType DEF DeRegistrationIsGivenUp
    <2>3. QED
      BY <1>4, <1>7, <2>2 DEF DeRegistrationIsGivenUp, Waits
  <1>8. QED
    BY <1>1, <1>2, <1>3, <1>5, <1>6, <1>7 DEF DeviceRuns

\* A send that ends leaves the device waiting for what is in progress, or idle.
LEMMA LinkInv ==
  ASSUME Inv, Link
  PROVE  Inv'
  <1> USE DEF Inv, TypeOK, WaitsForItsRequest
  <1>1. \A message \in {Nothing, "current", "deregister", "other"} \ {Nothing} :
           OnItsWay(message) \subseteq Message
    BY DEF OnItsWay, Message, Requests
  <1>2. CASE SendSucceeds
    <2>1. p' \in Node /\ Waits(p')
      BY <1>2 DEF SendSucceeds, AfterSend, Node, States, Waits
    <2>2. network' \subseteq Message
      BY <1>1, <1>2 DEF SendSucceeds, Node
    <2>3. QED
      BY <1>2, <2>1, <2>2, BudgetsType DEF SendSucceeds, Waits
  <1>3. CASE SendFails
    <2>1. PICK left \in BOOLEAN :
             p' = NoteLinkFailure([p EXCEPT !.sending = Nothing, !.halfSent = left])
      BY <1>3 DEF SendFails
    <2>2. p' \in Node /\ p'.state = "idle"
      BY <2>1 DEF NoteLinkFailure, Node, States
    <2>3. network' \subseteq Message
      BY <1>1, <1>3 DEF SendFails, Node
    <2>4. QED
      BY <1>3, <2>2, <2>3, BudgetsType DEF SendFails
  <1>4. CASE LinkFails
    <2>1. p' \in Node /\ p'.state = "idle"
      BY <1>4 DEF LinkFails, NoteLinkFailure, Node, States
    <2>2. QED
      BY <1>4, <2>1, BudgetsType DEF LinkFails
  <1>5. QED
    BY <1>2, <1>3, <1>4 DEF Link

\* A response that is taken brings the device to rest or leaves it where it is.
LEMMA NetworkInv ==
  ASSUME Inv, Network
  PROVE  Inv'
  <1> USE DEF Inv, TypeOK, WaitsForItsRequest
  <1>1. PICK m \in network : RelayAccepts(m) \/ RelayRefuses(m) \/ IsLost(m) \/ ReceiveResponse(m)
    BY DEF Network
  <1>2. ASSUME NEW n \in Node, Waits(n), NEW inProgress \in BOOLEAN
        PROVE  Completed(n, inProgress) \in Node /\ Waits(Completed(n, inProgress))
    BY <1>2, NoteAttemptCompleteType DEF Completed
  <1>3. CASE RelayAccepts(m) \/ RelayRefuses(m) \/ IsLost(m)
    <2>1. network' \subseteq Message
      BY <1>1, <1>3 DEF RelayAccepts, RelayRefuses, IsLost, Answer, Message
    <2>2. QED
      BY <1>3, <2>1, BudgetsType DEF RelayAccepts, RelayRefuses, IsLost
  <1>4. CASE ReceiveResponse(m)
    <2>1. Waits(p) /\ p.deRegistrationInProgress \in BOOLEAN /\ p.registrationInProgress \in BOOLEAN
      BY DEF Waits, Node
    <2>2. ASSUME NEW period \in Periods
          PROVE  Registered(period) \in Node /\ Waits(Registered(period))
      <3> DEFINE n == [p EXCEPT !.isRegistered = TRUE, !.period = period,
                                !.awaited = @ \cap {"deregister"}, !.configurationChanged = TRUE,
                                !.state = "idle", !.registrationInProgress = FALSE]
      <3>1. period \in {"none", "some"}
        BY BoundAssumption
      <3>2. n \in Node /\ n.state = "idle"
        BY <3>1 DEF Node, States, Requests
      <3>3. Waits(n)
        BY <3>2 DEF Waits
      <3> HIDE DEF n
      <3>4. QED
        BY <1>2, <2>1, <3>2, <3>3 DEF Registered, n
    <2>3. DeRegistered \in Node /\ Waits(DeRegistered)
      <3> DEFINE n == [RestartNormalRegistrationProcess(p) EXCEPT
                          !.awaited = @ \ {"deregister"}, !.deRegistrationInProgress = FALSE]
      <3>1. n \in Node /\ n.state = "idle"
        BY DEF RestartNormalRegistrationProcess, Node, States, Requests
      <3>2. Waits(n)
        BY <3>1 DEF Waits
      <3> HIDE DEF n
      <3>3. QED
        BY <1>2, <2>1, <3>1, <3>2 DEF DeRegistered, n
    <2>4. /\ RegistrationRefused \in Node /\ Waits(RegistrationRefused)
          /\ DeRegistrationRefused \in Node /\ Waits(DeRegistrationRefused)
      BY <1>2, <2>1 DEF RegistrationRefused, DeRegistrationRefused
    <2>5. p' \in Node /\ Waits(p')
      BY <1>4, <2>1, <2>2, <2>3, <2>4
      DEF ReceiveResponse, HandleRegistrationResponse, HandleDeRegistrationResponse
    <2>6. QED
      BY <1>4, <2>5, BudgetsType DEF ReceiveResponse, Waits
  <1>5. QED
    BY <1>1, <1>3, <1>4

\* What the module reports changes no flag of a request in progress.
LEMMA ModuleInv ==
  ASSUME Inv, Module
  PROVE  Inv'
  <1> USE DEF Inv, TypeOK, WaitsForItsRequest
  <1>1. p' \in Node /\ Waits(p') /\ network' = network
    BY DEF Module, Synchronizes, SynchronizationIsLost, CellChanges, NoteConfigurationSent,
       LinkControlResponse, NoteLinkFailure, Node, States, Nothing, Waits
  <1>2. Fault \/ NoFault
    BY DEF Module, Synchronizes, SynchronizationIsLost, CellChanges, NoteConfigurationSent,
       LinkControlResponse
  <1>3. QED
    BY <1>1, <1>2, BudgetsType DEF Waits

LEMMA ApplicationInv ==
  ASSUME Inv, Application
  PROVE  Inv'
  <1> USE DEF Inv, TypeOK, WaitsForItsRequest
  <1>1. CASE SendOther
    <2>1. p' \in Node /\ p'.state = "sending"
      BY <1>1 DEF SendOther, SendMessage, Node, States, Nothing
    <2>2. QED
      BY <1>1, <2>1, BudgetsType DEF SendOther
  <1>6. CASE RegisterNow
    BY <1>6, BudgetsType DEF RegisterNow, Node, Procedures, Polled
  <1>7. CASE DeRegisterNow
    BY <1>7, BudgetsType DEF DeRegisterNow, Node, Procedures, Polled
  <1>2. CASE HandleDeRegisterRequest
    <2>1. p' \in Node /\ p'.state = "idle"
      BY <1>2 DEF HandleDeRegisterRequest, RestartNormalRegistrationProcess, Node, States
    <2>2. QED
      BY <1>2, <2>1, BudgetsType DEF HandleDeRegisterRequest
  <1>3. CASE \E procedure \in Polled : GetResult(procedure)
    BY <1>3, BudgetsType DEF GetResult, Node
  <1>4. CASE \E interface \in {"enable", "disable", "keep"} : SendLinkControl(interface)
    BY <1>4, BudgetsType DEF SendLinkControl, IsBusy, Node, Nothing, Procedures, Polled
  <1>5. CASE \E needToReregister \in BOOLEAN : SetConfiguration(needToReregister)
    BY <1>5, BudgetsType DEF SetConfiguration, Node
  <1>8. QED
    BY <1>1, <1>2, <1>3, <1>4, <1>5, <1>6, <1>7 DEF Application

LEMMA OutageInv ==
  ASSUME Inv, Outage
  PROVE  Inv'
  <1> USE DEF Inv, TypeOK, WaitsForItsRequest
  <1>1. CASE ReInit
    <2>1. InitialNode \in Node /\ InitialNode.state = "idle"
      BY DEF InitialNode, Node, States, Nothing
    <2>2. p' \in Node /\ p'.state = "idle"
      BY <1>1, <2>1 DEF ReInit, Node
    <2>3. QED
      BY <1>1, <2>2, BudgetsType DEF ReInit
  <1>2. CASE \E soon \in BOOLEAN : NotePowerUp(soon)
    BY <1>2, BudgetsType DEF NotePowerUp, Node
  <1>3. QED
    BY <1>1, <1>2 DEF Outage

\* The device is in a state of waiting only while its flags say that it waits.
THEOREM RegistrationInvariant == Spec => []Inv
  <1>1. Inv /\ [Next]_vars => Inv'
    <2> SUFFICES ASSUME Inv, [Next]_vars PROVE Inv'
      OBVIOUS
    <2>1. CASE UNCHANGED vars
      BY <2>1 DEF Inv, TypeOK, WaitsForItsRequest, vars
    <2>2. CASE Next
      BY <2>2, DeviceRunsInv, NetworkInv, LinkInv, ModuleInv, ApplicationInv, OutageInv DEF Next
    <2>3. QED
      BY <2>1, <2>2
  <1>2. QED
    BY InitInv, <1>1, PTL DEF Spec

\* Types: in particular no id but the last two registrations' and the last
\* deregistration's is ever on its way under a name that is awaited.
THEOREM RegistrationTypeOK == Spec => []TypeOK
  <1>1. Inv => TypeOK
    BY DEF Inv
  <1>2. QED
    BY RegistrationInvariant, <1>1, PTL

\* ALS_REGISTERING and ALS_DEREGISTERING without a request in progress, which nothing
\* but a timeout would end, are never reached, for every number of faults and calls.
THEOREM RegistrationWaitsForItsRequest == Spec => []WaitsForItsRequest
  <1>1. Inv => WaitsForItsRequest
    BY DEF Inv
  <1>2. QED
    BY RegistrationInvariant, <1>1, PTL

=============================================================================
