--------------------------- MODULE TransportProofs ---------------------------
(***************************************************************************)
(* Whatever is lost and whoever restarts, the types of the transports      *)
(* hold, and the link never comes to rest with the negotiation half done:  *)
(* the device learns that the communication module has its configuration   *)
(* or will be asked to negotiate again.                                    *)
(***************************************************************************)
EXTENDS Transport, SequenceTheorems, TLAPS

CallRecords == [message : Messages, received : BOOLEAN]

Sendings == [state : {"idle", "sending"}, starting : BOOLEAN, tries : {0, 1}]

-----------------------------------------------------------------------------
\* What the ends say to each other are messages, and a message that is not a response is
\* a request.
LEMMA RequestsAreMessages ==
    /\ {Negotiate, GetConfig, GetStatus, Send} \subseteq RequestMessages
    /\ \A c \in Controls : Control(c) \in RequestMessages
    /\ RequestMessages \subseteq Messages
    /\ \A m \in RequestMessages : m.kind \in Kinds
BY DEF Negotiate, GetConfig, GetStatus, Send, Control, Request, RequestMessages, Messages, Kinds, Controls

LEMMA ResponsesAreMessages ==
    ASSUME NEW code \in {"OK", "NETR", "ISSS", "ERR"}, NEW to \in Answered
    PROVE  Response(code, to) \in Messages
BY DEF Messages

\* A request that is sent once is one that can be delayed.
LEMMA RequestsCanBeDelayed ==
    ASSUME NEW m \in Messages, m.kind \in Kinds
    PROVE  m \in RequestMessages
<1>1. SUFFICES ASSUME NEW code \in {"OK", "NETR", "ISSS", "ERR"}, NEW to \in Answered,
                      m = Response(code, to)
               PROVE  FALSE
  BY DEF Messages
<1>2. m.kind = "response"
  BY <1>1 DEF Response
<1> QED
  BY <1>2 DEF Kinds

LEMMA OneCall ==
    ASSUME NEW m \in Messages
    PROVE  <<Call(m)>> \in Seq(CallRecords)
BY DEF Call, CallRecords

LEMMA RestartsAreCalls ==
    ASSUME NEW a
    PROVE  RestartSend(a) \in Seq(CallRecords)
BY RequestsAreMessages, OneCall DEF RestartSend

-----------------------------------------------------------------------------
LEMMA InitialStatusOK ==
    ASSUME NEW e \in Ends
    PROVE  InitialStatus(e) \in Statuses
BY DEF InitialStatus, Statuses, Kinds

LEMMA NoteRequestOK ==
    ASSUME NEW s \in Statuses, NEW m \in RequestMessages
    PROVE  NoteRequest(s, m) \in Statuses
BY RequestsAreMessages DEF NoteRequest, Statuses

LEMMA DelayedOK ==
    ASSUME NEW s \in Statuses, NEW m \in RequestMessages
    PROVE  Delayed(s, m) \in Statuses
BY DEF Delayed, Statuses

LEMMA ResetLinkOK ==
    ASSUME NEW s \in Statuses
    PROVE  ResetLink(s) \in Statuses
BY DEF ResetLink, Statuses

LEMMA ClearOK ==
    ASSUME NEW s \in Statuses
    PROVE  Clear(s) \in Statuses
BY DEF Clear, Statuses

LEMMA AfterAnswerOK ==
    ASSUME NEW s \in Statuses, NEW m
    PROVE  AfterAnswer(s, m) \in Statuses
BY DEF AfterAnswer, Statuses

LEMMA SucceedsForOK ==
    ASSUME NEW s \in Statuses, NEW m \in Messages
    PROVE  SucceedsFor(s, m) \in Statuses
<1>1. /\ [s EXCEPT !.commModulePresent = TRUE] \in Statuses
      /\ [s EXCEPT !.negotiateComplete = TRUE, !.state = "NORMAL"] \in Statuses
  BY DEF Statuses
<1>2. \A t \in Statuses : [t EXCEPT !.inhibited = FALSE] \in Statuses
  BY DEF Statuses
<1>3. IsRequest(m) \/ m = Send => NoteRequest(s, m) \in Statuses
  BY NoteRequestOK, RequestsAreMessages, RequestsCanBeDelayed DEF IsRequest
<1> QED
  BY <1>1, <1>2, <1>3 DEF SucceedsFor

LEMMA FailsForOK ==
    ASSUME NEW s \in Statuses, NEW m \in Messages
    PROVE  FailsFor(s, m) \in Statuses
BY DelayedOK, ResetLinkOK, RequestsCanBeDelayed DEF FailsFor, IsRequest

LEMMA SendingOK ==
    ASSUME NEW a \in Sendings
    PROVE  /\ NoteFailure(a) \in Sendings
           /\ NoteFailedSend(a) \in Sendings
           /\ a.tries > 0 => UseTry(a) \in Sendings
BY DEF NoteFailure, NoteFailedSend, UseTry, Sendings

-----------------------------------------------------------------------------
LEMMA PeerIsEnd == \A e \in Ends : Peer(e) \in Ends
BY DEF Peer, Ends

\* What is taken from the head of the calls is a call of a message.
LEMMA HeadIsCall ==
    ASSUME TypeOK, NEW e \in Ends, Calling(e)
    PROVE  /\ Head(calls[e]) \in CallRecords
           /\ Head(calls[e]).message \in Messages
           /\ Tail(calls[e]) \in Seq(CallRecords)
<1>1. calls[e] \in Seq(CallRecords) /\ calls[e] # <<>>
  BY DEF TypeOK, CallRecords, Calling
<1>2. Head(calls[e]) \in CallRecords /\ Tail(calls[e]) \in Seq(CallRecords)
  BY <1>1, HeadTailProperties
<1> QED
  BY <1>2 DEF CallRecords

LEMMA FaultOK ==
    ASSUME TypeOK, Fault
    PROVE  faults' \in 0..MaxFaults
BY TransportAssumption DEF TypeOK, Fault

LEMMA TimeoutOK ==
    ASSUME TypeOK, Timeout
    PROVE  faults' \in 0..MaxFaults
BY FaultOK DEF TypeOK, Timeout

LEMMA CountedOK ==
    ASSUME TypeOK, Counted
    PROVE  faults' \in 0..MaxFaults /\ requests' \in 0..MaxRequests
BY TransportAssumption DEF TypeOK, Counted

-----------------------------------------------------------------------------
\* The end of a call.

LEMMA AfterSuccessOK ==
    ASSUME TypeOK, NEW e \in Ends, Calling(e), AfterSuccess(e, Head(calls[e]).message)
    PROVE  /\ status' \in [Ends -> Statuses]
           /\ calls' \in [Ends -> Seq(CallRecords)]
           /\ baud' \in [Ends -> Bauds]
           /\ al' \in [Ends -> Sendings]
<1> DEFINE m == Head(calls[e]).message
<1>1. m \in Messages /\ Tail(calls[e]) \in Seq(CallRecords)
  BY HeadIsCall
<1>2. AfterAnswer(SucceedsFor(status[e], m), m) \in Statuses
  BY <1>1, SucceedsForOK, AfterAnswerOK DEF TypeOK
<1> HIDE DEF m
<1>3. status' \in [Ends -> Statuses]
  BY <1>2 DEF AfterSuccess, TypeOK, m
<1>4. calls' \in [Ends -> Seq(CallRecords)]
  BY <1>1 DEF AfterSuccess, TypeOK, CallRecords
<1>5. baud' \in [Ends -> Bauds]
  BY TransportAssumption DEF AfterSuccess, TypeOK
<1>6. al' \in [Ends -> Sendings]
  BY DEF AfterSuccess, TypeOK, Sendings
<1> QED
  BY <1>3, <1>4, <1>5, <1>6

LEMMA AfterFailureOK ==
    ASSUME TypeOK, NEW e \in Ends, Calling(e), AfterFailure(e, Head(calls[e]).message)
    PROVE  /\ status' \in [Ends -> Statuses]
           /\ calls' \in [Ends -> Seq(CallRecords)]
           /\ baud' \in [Ends -> Bauds]
           /\ al' \in [Ends -> Sendings]
<1> DEFINE m == Head(calls[e]).message
<1>1. m \in Messages /\ Tail(calls[e]) \in Seq(CallRecords)
  BY HeadIsCall
<1>2. AfterAnswer(FailsFor(status[e], m), m) \in Statuses
  BY <1>1, FailsForOK, AfterAnswerOK DEF TypeOK
<1>3. (IF m = Send THEN RestartSend(al[e]) ELSE <<>>) \o Tail(calls[e]) \in Seq(CallRecords)
  BY <1>1, RestartsAreCalls
<1> HIDE DEF m
<1>4. status' \in [Ends -> Statuses]
  BY <1>2 DEF AfterFailure, TypeOK, m
<1>5. calls' \in [Ends -> Seq(CallRecords)]
  BY <1>3 DEF AfterFailure, TypeOK, CallRecords, m
<1>6. baud' \in [Ends -> Bauds]
  BY TransportAssumption DEF AfterFailure, TypeOK
<1>7. al' \in [Ends -> Sendings]
  <2>1. al \in [Ends -> Sendings]
    BY DEF TypeOK, Sendings
  <2>2. [al[e] EXCEPT !.starting = FALSE] \in Sendings
    BY <2>1 DEF Sendings
  <2> QED
    BY <2>1, <2>2, SendingOK DEF AfterFailure
<1> QED
  BY <1>4, <1>5, <1>6, <1>7

LEMMA CallEndsOK ==
    ASSUME TypeOK, NEW e \in Ends, CallEnds(e)
    PROVE  TypeOK'
<1>1. CASE CallSucceeds(e)
  <2>1. rx' \in [Ends -> Messages \cup {NoMessage}]
    BY <1>1, HeadIsCall DEF CallSucceeds, TypeOK
  <2> QED
    BY <1>1, <2>1, AfterSuccessOK DEF CallSucceeds, budgets, TypeOK, CallRecords, Sendings
<1>2. CASE CallIsNotAcknowledged(e)
  <2>1. rx' \in [Ends -> Messages \cup {NoMessage}]
    BY <1>2, HeadIsCall DEF CallIsNotAcknowledged, TypeOK
  <2>2. calls' \in [Ends -> Seq(CallRecords)]
    <3>1. calls[e] \in Seq(CallRecords) /\ calls[e] # <<>>
      BY <1>2 DEF CallIsNotAcknowledged, Calling, TypeOK, CallRecords
    <3>2. calls[e][1] \in CallRecords
      BY <3>1
    <3>3. [calls[e][1] EXCEPT !.received = TRUE] \in CallRecords
      BY <3>2 DEF CallRecords
    <3>4. [calls[e] EXCEPT ![1] = [calls[e][1] EXCEPT !.received = TRUE]] \in Seq(CallRecords)
      BY <3>1, <3>3
    <3> QED
      BY <1>2, <3>4 DEF CallIsNotAcknowledged, TypeOK, CallRecords
  <2>3. faults' \in 0..MaxFaults
    BY <1>2, FaultOK DEF CallIsNotAcknowledged, TypeOK
  <2> QED
    BY <1>2, <2>1, <2>2, <2>3 DEF CallIsNotAcknowledged, TypeOK, CallRecords
<1>3. CASE CallFails(e)
  <2>1. faults' \in 0..MaxFaults
    BY <1>3, FaultOK DEF CallFails, TypeOK
  <2> QED
    BY <1>3, <2>1, AfterFailureOK DEF CallFails, TypeOK, CallRecords, Sendings
<1> QED
  BY <1>1, <1>2, <1>3 DEF CallEnds

-----------------------------------------------------------------------------
\* What is received: a handler leaves the buffer empty, and answers with a message.

LEMMA HandledOK ==
    ASSUME TypeOK, NEW e \in Ends, NEW ms, Handles(e, ms),
           status' \in [Ends -> Statuses],
           calls' \in [Ends -> Seq(CallRecords)],
           baud' \in [Ends -> Bauds],
           al' \in [Ends -> Sendings]
    PROVE  TypeOK'
BY DEF Handles, budgets, TypeOK, CallRecords, Sendings

LEMMA AnswerOK ==
    ASSUME TypeOK, NEW e \in Ends, NEW code \in {"OK", "NETR", "ISSS", "ERR"},
           NEW to \in Answered, Answer(e, code, to)
    PROVE  calls' \in [Ends -> Seq(CallRecords)]
BY ResponsesAreMessages, OneCall DEF Answer, TypeOK, CallRecords

LEMMA HandleRequestOK ==
    ASSUME TypeOK, NEW e \in Ends,
           \/ HandleNegotiate(e)
           \/ HandleGet(e)
           \/ HandleLinkControl(e)
           \/ HandleSendRefused(e)
           \/ HandleSend(e)
    PROVE  TypeOK'
<1>1. status[e] \in Statuses
  BY DEF TypeOK
<1>2. CASE HandleNegotiate(e)
  <2>1. status' \in [Ends -> Statuses]
    BY <1>1, <1>2 DEF HandleNegotiate, TypeOK, Statuses
  <2>2. calls' \in [Ends -> Seq(CallRecords)]
    BY <1>2, AnswerOK DEF HandleNegotiate, Answered, Kinds
  <2> QED
    BY <1>2, <2>1, <2>2, HandledOK DEF HandleNegotiate, TypeOK, Sendings
<1>3. CASE HandleGet(e)
  <2>1. status' \in [Ends -> Statuses]
    BY <1>1, <1>3 DEF HandleGet, TypeOK, Statuses
  <2>2. rx[e].kind \in Answered
    BY <1>3 DEF HandleGet, Handles, GetConfig, GetStatus, Request, Answered, Kinds
  <2>3. calls' \in [Ends -> Seq(CallRecords)]
    BY <1>3, <2>2, AnswerOK DEF HandleGet
  <2> QED
    BY <1>3, <2>1, <2>3, HandledOK DEF HandleGet, TypeOK, Sendings
<1>4. CASE HandleLinkControl(e)
  <2>1. rx[e].control \in Answered
    BY <1>4 DEF HandleLinkControl, Handles, Control, Answered
  <2>2. calls' \in [Ends -> Seq(CallRecords)]
    BY <1>4, <2>1, AnswerOK DEF HandleLinkControl
  <2> QED
    BY <1>4, <2>2, HandledOK DEF HandleLinkControl, TypeOK, Sendings
<1>5. CASE HandleSendRefused(e)
  <2>1. calls' \in [Ends -> Seq(CallRecords)]
    BY <1>5, AnswerOK DEF HandleSendRefused, Answered, Kinds
  <2> QED
    BY <1>5, <2>1, HandledOK DEF HandleSendRefused, TypeOK, Sendings
<1>6. CASE HandleSend(e)
  <2>1. CASE status' = [status EXCEPT ![e].okOwed = TRUE] /\ UNCHANGED calls
    <3>1. [status[e] EXCEPT !.okOwed = TRUE] \in Statuses
      BY <1>1 DEF Statuses
    <3>2. status' \in [Ends -> Statuses]
      BY <2>1, <3>1 DEF TypeOK
    <3> QED
      BY <1>6, <2>1, <3>2, HandledOK DEF HandleSend, TypeOK, CallRecords, Sendings
  <2>2. CASE (\E code \in {"OK", "ERR"} : Answer(e, code, "send")) /\ UNCHANGED status
    <3>1. calls' \in [Ends -> Seq(CallRecords)]
      BY <2>2, AnswerOK DEF Answered, Kinds
    <3> QED
      BY <1>6, <2>2, <3>1, HandledOK DEF HandleSend, TypeOK, Sendings
  <2> QED
    BY <1>6, <2>1, <2>2 DEF HandleSend
<1> QED
  BY <1>2, <1>3, <1>4, <1>5, <1>6

LEMMA HandleResponseOK ==
    ASSUME TypeOK, NEW e \in Ends,
           \/ HandleBadResponse(e)
           \/ HandleNETR(e)
           \/ HandleFailedSend(e)
           \/ HandleNegotiated(e)
           \/ HandleConfiguration(e)
           \/ HandleSent(e)
           \/ HandleOther(e)
    PROVE  TypeOK'
<1>1. Clear(status[e]) \in Statuses /\ al[e] \in Sendings
  BY ClearOK DEF TypeOK, Sendings
<1>2. CASE HandleBadResponse(e)
  <2>1. status' \in [Ends -> Statuses] /\ al' \in [Ends -> Sendings]
    BY <1>1, <1>2, SendingOK DEF HandleBadResponse, TypeOK, Sendings
  <2> QED
    BY <1>2, <2>1, HandledOK DEF HandleBadResponse, TypeOK, CallRecords
<1>3. CASE HandleNETR(e)
  <2>1. [Clear(status[e]) EXCEPT !.failureOwed = TRUE] \in Statuses
    BY <1>1 DEF Statuses
  <2>2. status' \in [Ends -> Statuses]
    BY <1>3, <2>1 DEF HandleNETR, TypeOK
  <2> QED
    BY <1>3, <2>2, HandledOK DEF HandleNETR, TypeOK, CallRecords, Sendings
<1>4. CASE HandleFailedSend(e)
  <2>1. status' \in [Ends -> Statuses]
    BY <1>1, <1>4 DEF HandleFailedSend, TypeOK
  <2>2. al' \in [Ends -> Sendings]
    <3>1. NoteFailedSend(al[e]) \in Sendings
      BY <1>1, SendingOK
    <3> QED
      BY <1>4, <3>1 DEF HandleFailedSend, TypeOK, Sendings
  <2>3. calls' \in [Ends -> Seq(CallRecords)]
    BY <1>4, RestartsAreCalls DEF HandleFailedSend, TypeOK, CallRecords
  <2> QED
    BY <1>4, <2>1, <2>2, <2>3, HandledOK DEF HandleFailedSend, TypeOK
<1>5. CASE HandleNegotiated(e)
  <2>1. [Clear(status[e]) EXCEPT !.negotiateComplete = TRUE,
                                 !.state = IF status[e].haveConfiguration
                                           THEN "NORMAL" ELSE "NEEDCONFIG"] \in Statuses
    BY <1>1 DEF Statuses
  <2>2. status' \in [Ends -> Statuses]
    BY <1>5, <2>1 DEF HandleNegotiated, TypeOK
  <2>3. baud' \in [Ends -> Bauds]
    BY <1>5 DEF HandleNegotiated, TypeOK
  <2> QED
    BY <1>5, <2>2, <2>3, HandledOK DEF HandleNegotiated, TypeOK, CallRecords, Sendings
<1>6. CASE HandleConfiguration(e)
  <2>1. [Clear(status[e]) EXCEPT !.haveConfiguration = TRUE, !.state = "NORMAL"] \in Statuses
    BY <1>1 DEF Statuses
  <2>2. status' \in [Ends -> Statuses]
    BY <1>1, <1>6, <2>1 DEF HandleConfiguration, TypeOK
  <2> QED
    BY <1>6, <2>2, HandledOK DEF HandleConfiguration, TypeOK, CallRecords, Sendings
<1>7. CASE HandleSent(e)
  <2>1. status' \in [Ends -> Statuses]
    BY <1>1, <1>7 DEF HandleSent, TypeOK
  <2>2. al' \in [Ends -> Sendings]
    BY <1>1, <1>7 DEF HandleSent, TypeOK, Sendings
  <2> QED
    BY <1>7, <2>1, <2>2, HandledOK DEF HandleSent, TypeOK, CallRecords
<1>8. CASE HandleOther(e)
  <2>1. status' \in [Ends -> Statuses]
    BY <1>1, <1>8 DEF HandleOther, TypeOK
  <2> QED
    BY <1>8, <2>1, HandledOK DEF HandleOther, TypeOK, CallRecords, Sendings
<1> QED
  BY <1>2, <1>3, <1>4, <1>5, <1>6, <1>7, <1>8

-----------------------------------------------------------------------------
\* C1222TL_Run.

LEMMA RunOK ==
    ASSUME TypeOK, NEW e \in Ends, RunReset(e) \/ RunInit(e) \/ RunNeedConfig(e)
    PROVE  TypeOK'
<1>1. status[e] \in Statuses /\ al[e] \in Sendings
  BY DEF TypeOK, Sendings
<1>2. CASE RunReset(e)
  <2>1. <<Call(Control("reset"))>> \in Seq(CallRecords)
    BY RequestsAreMessages, OneCall DEF Controls
  <2>2. StartOver(status[e]) \in Statuses
    BY <1>1 DEF StartOver, Statuses
  <2>3. [StartOver(status[e]) EXCEPT !.negotiateComplete = FALSE] \in Statuses
    BY <2>2 DEF Statuses
  <2>4. status' \in [Ends -> Statuses]
    BY <1>2, <2>2, <2>3 DEF RunReset, TypeOK
  <2>5. calls' \in [Ends -> Seq(CallRecords)]
    BY <1>2, <2>1 DEF RunReset, TypeOK, CallRecords
  <2> QED
    BY <1>2, <2>4, <2>5 DEF RunReset, TypeOK, budgets, CallRecords
<1>3. CASE RunInit(e)
  <2>1. [Clear(status[e]) EXCEPT !.state = "DISCONNECTED",
                                 !.negotiateComplete = FALSE,
                                 !.haveConfiguration = e = Device] \in Statuses
    <3>1. Clear(status[e]) \in Statuses /\ (e = Device) \in BOOLEAN
      BY <1>1, ClearOK
    <3> QED
      BY <3>1 DEF Statuses
  <2>2. status' \in [Ends -> Statuses]
    BY <1>3, <2>1 DEF RunInit, TypeOK
  <2>3. NoteFailedSend(al[e]) \in Sendings /\ NoteFailure(al[e]) \in Sendings
    BY <1>1, SendingOK
  <2>4. al' \in [Ends -> Sendings]
    BY <1>1, <1>3, <2>3 DEF RunInit, TypeOK, Sendings
  <2>5. <<Call(Negotiate)>> \in Seq(CallRecords)
    BY RequestsAreMessages, OneCall
  <2>6. (IF status[e].pending = "send" THEN RestartSend(al[e]) ELSE <<>>)
           \o (IF e = CommModule THEN <<Call(Negotiate)>> ELSE <<>>) \in Seq(CallRecords)
    BY <2>5, RestartsAreCalls
  <2>7. calls' \in [Ends -> Seq(CallRecords)]
    BY <1>3, <2>6 DEF RunInit, TypeOK, CallRecords
  <2> QED
    BY <1>3, <2>2, <2>4, <2>7 DEF RunInit, TypeOK, budgets, CallRecords, Sendings
<1>4. CASE RunNeedConfig(e)
  <2>1. status' \in [Ends -> Statuses]
    BY <1>1, <1>4 DEF RunNeedConfig, TypeOK, Statuses
  <2>2. calls' \in [Ends -> Seq(CallRecords)]
    BY <1>4, RequestsAreMessages, OneCall DEF RunNeedConfig, TypeOK, CallRecords
  <2> QED
    BY <1>4, <2>1, <2>2 DEF RunNeedConfig, TypeOK, budgets, CallRecords
<1> QED
  BY <1>2, <1>3, <1>4

LEMMA RequestIsSentOK ==
    ASSUME TypeOK, NEW e \in Ends, RunDisconnected(e) \/ HandleDelayedRequests(e)
    PROVE  TypeOK'
<1>1. CASE RunDisconnected(e)
  <2>1. calls' \in [Ends -> Seq(CallRecords)]
    BY <1>1, RequestsAreMessages, OneCall DEF RunDisconnected, TypeOK, CallRecords
  <2> QED
    BY <1>1, <2>1, TimeoutOK DEF RunDisconnected, TypeOK, CallRecords
<1>2. CASE HandleDelayedRequests(e)
  <2>1. PICK m \in DueRequests(status[e]) : calls' = [calls EXCEPT ![e] = <<Call(m)>>]
    BY <1>2 DEF HandleDelayedRequests
  <2>2. m \in Messages
    BY RequestsAreMessages DEF DueRequests, TypeOK, Statuses
  <2>3. calls' \in [Ends -> Seq(CallRecords)]
    BY <2>1, <2>2, OneCall DEF TypeOK, CallRecords
  <2> QED
    BY <1>2, <2>3, TimeoutOK DEF HandleDelayedRequests, TypeOK, CallRecords
<1> QED
  BY <1>1, <1>2

LEMMA TimeOK ==
    ASSUME TypeOK, NEW e \in Ends,
           \/ FailureIsDue(e)
           \/ WaitABit(e)
           \/ WaitEnds(e)
           \/ RequestTimesOut(e)
           \/ TrafficTimeout(e)
           \/ InhibitionEnds(e)
    PROVE  TypeOK'
<1>1. status[e] \in Statuses /\ al[e] \in Sendings
  BY DEF TypeOK, Sendings
<1>2. NoteFailedSend(al[e]) \in Sendings /\ NoteFailure(al[e]) \in Sendings
  BY <1>1, SendingOK
<1>3. CASE FailureIsDue(e)
  <2>1. status' \in [Ends -> Statuses]
    BY <1>1, <1>3 DEF FailureIsDue, TypeOK, Statuses
  <2>2. al' \in [Ends -> Sendings] /\ calls' \in [Ends -> Seq(CallRecords)]
    BY <1>2, <1>3, RestartsAreCalls DEF FailureIsDue, TypeOK, Sendings, CallRecords
  <2> QED
    BY <1>3, <2>1, <2>2, TimeoutOK DEF FailureIsDue, TypeOK, Sendings, CallRecords
<1>4. CASE WaitABit(e)
  BY <1>4, TimeoutOK DEF WaitABit, LongTimeout, TypeOK
<1>5. CASE WaitEnds(e)
  BY <1>5 DEF WaitEnds, TypeOK, budgets
<1>6. CASE RequestTimesOut(e)
  <2>1. status' \in [Ends -> Statuses]
    BY <1>1, <1>6, ClearOK DEF RequestTimesOut, TypeOK
  <2>2. al' \in [Ends -> Sendings]
    BY <1>2, <1>6 DEF RequestTimesOut, TypeOK, Sendings
  <2>3. calls' \in [Ends -> Seq(CallRecords)]
    <3>1. /\ calls \in [Ends -> Seq(CallRecords)]
          /\ [calls EXCEPT ![e] = RestartSend(al[e])] \in [Ends -> Seq(CallRecords)]
      BY RestartsAreCalls DEF TypeOK, CallRecords
    <3> QED
      BY <1>6, <3>1 DEF RequestTimesOut
  <2> QED
    BY <1>6, <2>1, <2>2, <2>3, TimeoutOK
    DEF RequestTimesOut, LongTimeout, TypeOK, Sendings, CallRecords
<1>7. CASE TrafficTimeout(e)
  <2>1. status' \in [Ends -> Statuses]
    BY <1>1, <1>7, ResetLinkOK DEF TrafficTimeout, TypeOK
  <2>2. baud' \in [Ends -> Bauds]
    BY <1>7, TransportAssumption DEF TrafficTimeout, TypeOK
  <2>3. faults' \in 0..MaxFaults
    BY <1>7, FaultOK, TimeoutOK DEF TrafficTimeout
  <2> QED
    BY <1>7, <2>1, <2>2, <2>3 DEF TrafficTimeout, TypeOK
<1>8. CASE InhibitionEnds(e)
  <2>1. status' \in [Ends -> Statuses]
    BY <1>1, <1>8 DEF InhibitionEnds, TypeOK, Statuses
  <2> QED
    BY <1>8, <2>1, TimeoutOK DEF InhibitionEnds, LongTimeout, TypeOK
<1> QED
  BY <1>3, <1>4, <1>5, <1>6, <1>7, <1>8

-----------------------------------------------------------------------------
\* The application layers, and what restarts an end.

LEMMA ApplicationOK ==
    ASSUME TypeOK, NEW e \in Ends,
           \/ SendMessage(e)
           \/ SendTimesOut(e)
           \/ SendOKResponse(e)
           \/ ResetRequested(e)
    PROVE  TypeOK'
<1>1. status[e] \in Statuses /\ al[e] \in Sendings
  BY DEF TypeOK, Sendings
<1>2. CASE SendMessage(e)
  <2>1. [al[e] EXCEPT !.starting = TRUE, !.tries = 1] \in Sendings
    BY <1>1 DEF Sendings
  <2>2. al' \in [Ends -> Sendings]
    BY <1>2, <2>1 DEF SendMessage, TypeOK, Sendings
  <2>3. calls' \in [Ends -> Seq(CallRecords)]
    BY <1>2, RequestsAreMessages, OneCall DEF SendMessage, TypeOK, CallRecords
  <2> QED
    BY <1>2, <2>2, <2>3, CountedOK DEF SendMessage, TypeOK, CallRecords, Sendings
<1>3. CASE SendTimesOut(e)
  <2>1. NoteFailedSend(al[e]) \in Sendings
    BY <1>1, SendingOK
  <2>2. al' \in [Ends -> Sendings] /\ calls' \in [Ends -> Seq(CallRecords)]
    BY <1>3, <2>1, RestartsAreCalls DEF SendTimesOut, TypeOK, Sendings, CallRecords
  <2> QED
    BY <1>3, <2>2, TimeoutOK DEF SendTimesOut, TypeOK, CallRecords, Sendings
<1>4. CASE SendOKResponse(e)
  <2>1. status' \in [Ends -> Statuses]
    BY <1>1, <1>4 DEF SendOKResponse, TypeOK, Statuses
  <2>2. calls' \in [Ends -> Seq(CallRecords)]
    BY <1>4, AnswerOK DEF SendOKResponse, Answered, Kinds
  <2> QED
    BY <1>4, <2>1, <2>2 DEF SendOKResponse, TypeOK, budgets, CallRecords
<1>5. CASE ResetRequested(e)
  <2>1. status' \in [Ends -> Statuses]
    BY <1>1, <1>5 DEF ResetRequested, TypeOK, Statuses
  <2> QED
    BY <1>5, <2>1, CountedOK DEF ResetRequested, TypeOK
<1> QED
  BY <1>2, <1>3, <1>4, <1>5

LEMMA DeviceOK ==
    ASSUME TypeOK,
           \/ \E m \in DeviceRequests : DeviceRequest(m)
           \/ InhibitOptionalCommunication
           \/ NotePowerUp
    PROVE  TypeOK'
<1>1. Device \in Ends /\ status[Device] \in Statuses
  BY DEF TypeOK, Ends
<1>2. ASSUME NEW m \in DeviceRequests, DeviceRequest(m)
      PROVE  TypeOK'
  <2>1. m \in Messages
    BY TransportAssumption, RequestsAreMessages
  <2>2. calls' \in [Ends -> Seq(CallRecords)]
    BY <1>1, <1>2, <2>1, OneCall DEF DeviceRequest, TypeOK, CallRecords
  <2>3. Delayed(status[Device], m) \in Statuses
    <3>1. m \in RequestMessages
      BY TransportAssumption DEF RequestMessages, GetStatus, Kinds
    <3> QED BY <1>1, <3>1, DelayedOK
  <2>4. status' \in [Ends -> Statuses]
    BY <1>1, <1>2, <2>3 DEF DeviceRequest, TypeOK
  <2> QED
    BY <1>2, <2>2, <2>4, CountedOK DEF DeviceRequest, TypeOK, CallRecords
<1>3. CASE InhibitOptionalCommunication
  <2>1. status' \in [Ends -> Statuses]
    BY <1>1, <1>3 DEF InhibitOptionalCommunication, TypeOK, Statuses
  <2> QED
    BY <1>3, <2>1, CountedOK DEF InhibitOptionalCommunication, TypeOK
<1>4. CASE NotePowerUp
  <2>1. [status[Device] EXCEPT !.commModulePresent = FALSE,
                               !.negotiateComplete = FALSE,
                               !.pending = "none",
                               !.delayed = {},
                               !.state = "INIT",
                               !.inhibited = TRUE] \in Statuses
    BY <1>1 DEF Statuses
  <2>2. status' \in [Ends -> Statuses]
    BY <1>1, <1>4, <2>1 DEF NotePowerUp, TypeOK
  <2>3. baud' \in [Ends -> Bauds]
    BY <1>4, TransportAssumption DEF NotePowerUp, TypeOK
  <2> QED
    BY <1>4, <2>2, <2>3, CountedOK DEF NotePowerUp, TypeOK
<1> QED
  BY <1>2, <1>3, <1>4

LEMMA RebootOK ==
    ASSUME TypeOK, Reboot
    PROVE  TypeOK'
<1>1. status' \in [Ends -> Statuses]
  BY InitialStatusOK DEF Reboot, TypeOK, Ends
<1>2. baud' \in [Ends -> Bauds] /\ rx' \in [Ends -> Messages \cup {NoMessage}]
  BY TransportAssumption DEF Reboot, TypeOK
<1>3. calls' \in [Ends -> Seq(CallRecords)]
  <2>1. <<>> \in Seq(CallRecords)
    OBVIOUS
  <2>2. calls \in [Ends -> Seq(CallRecords)]
    BY DEF TypeOK, CallRecords
  <2> QED
    BY <2>1, <2>2 DEF Reboot
<1>4. al' \in [Ends -> Sendings]
  <2>1. NotSending \in Sendings
    BY DEF NotSending, Sendings
  <2> QED
    BY <2>1 DEF Reboot, TypeOK, Sendings
<1> QED
  BY <1>1, <1>2, <1>3, <1>4, CountedOK DEF Reboot, TypeOK, CallRecords, Sendings

-----------------------------------------------------------------------------
\* Every state of the two transports is of its type: a message is sent again no more
\* often than C1222_APPLICATION_RETRIES allows, and what is pending, delayed or in the
\* buffer is always a request or a response of the protocol.
THEOREM TransportTypeOK == Spec => []TypeOK
<1>1. Init => TypeOK
  <2> SUFFICES ASSUME Init PROVE TypeOK
    OBVIOUS
  <2>1. status \in [Ends -> Statuses]
    BY InitialStatusOK DEF Init
  <2>2. al \in [Ends -> Sendings]
    BY DEF Init, NotSending, Sendings
  <2> QED
    BY <2>1, <2>2, TransportAssumption DEF Init, TypeOK, Sendings
<1>2. TypeOK /\ [Next]_vars => TypeOK'
  <2> SUFFICES ASSUME TypeOK, [Next]_vars PROVE TypeOK'
    OBVIOUS
  <2>1. ASSUME NEW e \in Ends, CallEnds(e)
        PROVE  TypeOK'
    BY <2>1, CallEndsOK
  <2>2. ASSUME NEW e \in Ends, Run(e)
        PROVE  TypeOK'
    BY <2>2, HandleRequestOK, HandleResponseOK, RunOK DEF Run, HandleReceived
  <2>3. ASSUME NEW e \in Ends, RunDisconnected(e) \/ HandleDelayedRequests(e)
        PROVE  TypeOK'
    BY <2>3, RequestIsSentOK
  <2>4. ASSUME NEW e \in Ends,
               \/ FailureIsDue(e) \/ WaitABit(e) \/ WaitEnds(e)
               \/ RequestTimesOut(e) \/ TrafficTimeout(e) \/ InhibitionEnds(e)
        PROVE  TypeOK'
    BY <2>4, TimeOK
  <2>5. ASSUME NEW e \in Ends,
               SendMessage(e) \/ SendTimesOut(e) \/ SendOKResponse(e) \/ ResetRequested(e)
        PROVE  TypeOK'
    BY <2>5, ApplicationOK
  <2>6. CASE \/ \E m \in DeviceRequests : DeviceRequest(m)
             \/ InhibitOptionalCommunication
             \/ NotePowerUp
    BY <2>6, DeviceOK
  <2>7. CASE Reboot
    BY <2>7, RebootOK
  <2>8. CASE UNCHANGED vars
    BY <2>8 DEF vars, TypeOK
  <2> QED
    BY <2>1, <2>2, <2>3, <2>4, <2>5, <2>6, <2>7, <2>8 DEF Next
<1> QED
  BY <1>1, <1>2, PTL DEF Spec

-----------------------------------------------------------------------------
\* Who says what.  The communication module negotiates and asks for the
\* configuration; the device controls the link and asks for the status.
Asks(e) ==
    IF e = Device THEN {Control(c) : c \in Controls} \cup {GetStatus, Send}
    ELSE {Negotiate, GetConfig, Send}

AskedBy(e) ==
    IF e = Device THEN Controls \cup {"status", "send"}
    ELSE {"negotiate", "getconfig", "send"}

SaidBy(e) ==
    Asks(e) \cup
        {Response(code, to) : code \in {"OK", "NETR", "ISSS", "ERR"}, to \in AskedBy(Peer(e))}

Negotiated    == Response("OK", "negotiate")
Configuration == Response("OK", "getconfig")

\* What a call may be that neither negotiates nor asks for the configuration.
Plain(e) == SaidBy(e) \ {Negotiate, GetConfig, Negotiated}

Calls(e, m) == Calling(e) /\ Head(calls[e]).message = m

\* The queue of calls: one, or a message that is sent again before the link is
\* negotiated.
Queue(e, q) ==
    q # <<>> =>
        /\ Head(q).message \in SaidBy(e)
        /\ \/ Tail(q) = <<>>
           \/ e = CommModule /\ Head(q).message = Send /\ Tail(q) = <<Call(Negotiate)>>

Roles ==
    \A e \in Ends :
        /\ Queue(e, calls[e])
        /\ rx[e] \in SaidBy(Peer(e)) \cup {NoMessage}
        /\ status[e].delayed \subseteq Asks(e) \ {Send}
        /\ status[e].pending \in {"none"} \cup {m.kind : m \in Asks(e)}

\* The device has its configuration, and one that is disconnected has not
\* negotiated.
DeviceIsConsistent ==
    LET d == status[Device]
    IN  /\ d.haveConfiguration
        /\ d.state # "NEEDCONFIG"
        /\ d.state = "DISCONNECTED" => ~d.negotiateComplete

\* The communication module has no configuration from the moment it decides to
\* negotiate until it is answered.
WillNegotiate ==
    /\ Calling(CommModule)
    /\ Head(calls[CommModule]).message = Negotiate \/ Tail(calls[CommModule]) # <<>>

CommModuleIsConsistent ==
    LET c == status[CommModule]
    IN  /\ c.state = "NORMAL" => c.haveConfiguration
        /\ c.pending = "negotiate" => ~c.haveConfiguration
        /\ WillNegotiate =>
              /\ ~c.haveConfiguration
              /\ c.pending \in {"none", "send"}
              /\ c.state # "NEEDCONFIG"
        /\ Negotiate \in c.delayed =>
              /\ ~c.haveConfiguration
              /\ c.pending \notin {"negotiate", "getconfig"}
              /\ c.state # "NEEDCONFIG"
              /\ ~Calls(CommModule, GetConfig)

\* The communication module has the configuration, or will take what it received
\* for it, and no reset will make it forget.
HasConfiguration ==
    LET c == status[CommModule]
    IN  /\ ~c.resetNeeded
        /\ running[CommModule] # "resetting"
        /\ \/ c.haveConfiguration
           \/ /\ rx[CommModule] = Configuration
              /\ c.pending = "getconfig" \/ Calls(CommModule, GetConfig)

\* Then the device knows of it, or will negotiate again before it is ready: it will
\* reset the link, it has yet to be asked to negotiate, or, after a power up, the line
\* has two speeds or will have when the device has negotiated.
DeviceKnows ==
    LET d == status[Device]
    IN  \/ d.commModulePresent
        \/ d.resetNeeded
        \/ running[Device] = "resetting"
        \/ Calls(Device, Configuration) /\ Head(calls[Device]).received
        \/ /\ ~d.negotiateComplete
           /\ rx[Device] # Negotiate
           /\ ~Calls(Device, Negotiated)
        \/ /\ BestBaud # DefaultBaud
           /\ \/ ~d.negotiateComplete /\ baud[Device] = DefaultBaud
              \/ baud[Device] # baud[CommModule]

Consistent ==
    /\ Roles
    /\ DeviceIsConsistent
    /\ CommModuleIsConsistent
    /\ HasConfiguration => DeviceKnows

LinkInv == TypeOK /\ Consistent

-----------------------------------------------------------------------------
\* The messages are told from one another.
LEMMA TwoEnds ==
    /\ Device \in Ends /\ CommModule \in Ends /\ Device # CommModule
    /\ Peer(Device) = CommModule /\ Peer(CommModule) = Device
    /\ \A e \in Ends : e = Device \/ e = CommModule
    /\ \A e \in Ends : Peer(e) \in Ends /\ Peer(e) # e /\ Peer(Peer(e)) = e
BY TransportAssumption DEF Ends, Peer

LEMMA KindsOfMessages ==
    /\ Negotiate.kind = "negotiate" /\ GetConfig.kind = "getconfig"
    /\ GetStatus.kind = "status" /\ Send.kind = "send" /\ NoMessage.kind = "none"
    /\ \A c : Control(c).kind = "linkcontrol" /\ Control(c).control = c
    /\ \A code, to : /\ Response(code, to).kind = "response"
                     /\ Response(code, to).code = code
                     /\ Response(code, to).to = to
BY DEF Negotiate, GetConfig, GetStatus, Send, NoMessage, Request, Control, Response

LEMMA DeviceSays ==
    \A m \in SaidBy(Device) :
        /\ m \in Messages
        /\ m # NoMessage /\ m # Negotiate /\ m # GetConfig
        /\ \A code : m # Response(code, "reload") /\ m # Response(code, "reset")
        /\ m.kind \in {"linkcontrol", "status", "send", "response"}
<1>1. {GetStatus, Send} \subseteq Messages /\ \A c \in Controls : Control(c) \in Messages
  BY RequestsAreMessages
<1>2. \A to \in AskedBy(CommModule) : to \in Answered /\ to \in {"negotiate", "getconfig", "send"}
  BY TwoEnds DEF AskedBy, Answered, Kinds
<1>3. ASSUME NEW m \in Asks(Device)
      PROVE  m \in Messages /\ m.kind \in {"linkcontrol", "status", "send"}
  BY <1>1, <1>3, KindsOfMessages DEF Asks
<1>4. ASSUME NEW code \in {"OK", "NETR", "ISSS", "ERR"}, NEW to \in AskedBy(CommModule)
      PROVE  /\ Response(code, to) \in Messages
             /\ \A x : Response(code, to) # Response(x, "reload")
                    /\ Response(code, to) # Response(x, "reset")
  BY <1>2, ResponsesAreMessages, KindsOfMessages
<1>5. ASSUME NEW m \in SaidBy(Device)
      PROVE  \/ m \in Asks(Device)
             \/ \E code \in {"OK", "NETR", "ISSS", "ERR"}, to \in AskedBy(CommModule) :
                    m = Response(code, to)
  BY TwoEnds DEF SaidBy
<1>6. ASSUME NEW m \in Asks(Device)
      PROVE  /\ m \in Messages
             /\ m # NoMessage /\ m # Negotiate /\ m # GetConfig
             /\ \A code : m # Response(code, "reload") /\ m # Response(code, "reset")
             /\ m.kind \in {"linkcontrol", "status", "send", "response"}
  BY <1>3, <1>6, KindsOfMessages
<1>7. ASSUME NEW code \in {"OK", "NETR", "ISSS", "ERR"}, NEW to \in AskedBy(CommModule)
      PROVE  /\ Response(code, to) # NoMessage
             /\ Response(code, to) # Negotiate /\ Response(code, to) # GetConfig
             /\ Response(code, to).kind = "response"
  BY KindsOfMessages
<1>8. ASSUME NEW m \in SaidBy(Device), m \notin Asks(Device)
      PROVE  /\ m \in Messages
             /\ m # NoMessage /\ m # Negotiate /\ m # GetConfig
             /\ \A code : m # Response(code, "reload") /\ m # Response(code, "reset")
             /\ m.kind \in {"linkcontrol", "status", "send", "response"}
  <2>1. PICK code \in {"OK", "NETR", "ISSS", "ERR"}, to \in AskedBy(CommModule) :
            m = Response(code, to)
    BY <1>5, <1>8
  <2> QED BY <1>4, <1>7, <2>1
<1> QED BY <1>6, <1>8

LEMMA CommModuleSays ==
    \A m \in SaidBy(CommModule) :
        /\ m \in Messages
        /\ m # NoMessage /\ m # GetStatus
        /\ \A code : m # Response(code, "negotiate") /\ m # Response(code, "getconfig")
        /\ m.kind \in {"negotiate", "getconfig", "send", "response"}
<1>1. {Negotiate, GetConfig, Send} \subseteq Messages
  BY RequestsAreMessages
<1>2. \A to \in AskedBy(Device) : to \in Answered /\ to \notin {"negotiate", "getconfig"}
  BY DEF AskedBy, Answered, Kinds, Controls
<1>3. ASSUME NEW m \in Asks(CommModule)
      PROVE  m \in Messages /\ m.kind \in {"negotiate", "getconfig", "send"}
  BY <1>1, <1>3, KindsOfMessages, TwoEnds DEF Asks
<1>4. ASSUME NEW code \in {"OK", "NETR", "ISSS", "ERR"}, NEW to \in AskedBy(Device)
      PROVE  /\ Response(code, to) \in Messages
             /\ \A x : Response(code, to) # Response(x, "negotiate")
                    /\ Response(code, to) # Response(x, "getconfig")
  BY <1>2, ResponsesAreMessages, KindsOfMessages
<1>5. ASSUME NEW m \in SaidBy(CommModule)
      PROVE  \/ m \in Asks(CommModule)
             \/ \E code \in {"OK", "NETR", "ISSS", "ERR"}, to \in AskedBy(Device) :
                    m = Response(code, to)
  BY TwoEnds DEF SaidBy
<1>6. ASSUME NEW m \in Asks(CommModule)
      PROVE  /\ m \in Messages
             /\ m # NoMessage /\ m # GetStatus
             /\ \A code : m # Response(code, "negotiate") /\ m # Response(code, "getconfig")
             /\ m.kind \in {"negotiate", "getconfig", "send", "response"}
  BY <1>3, <1>6, KindsOfMessages
<1>7. ASSUME NEW code \in {"OK", "NETR", "ISSS", "ERR"}, NEW to \in AskedBy(Device)
      PROVE  /\ Response(code, to) # NoMessage /\ Response(code, to) # GetStatus
             /\ Response(code, to).kind = "response"
  BY KindsOfMessages
<1> QED BY <1>4, <1>5, <1>6, <1>7

LEMMA BothSay ==
    ASSUME NEW e \in Ends
    PROVE  /\ Send \in SaidBy(e) /\ Send \in Plain(e)
           /\ Asks(e) \subseteq SaidBy(e)
           /\ \A m \in SaidBy(e) : m \in Messages /\ m # NoMessage
<1>1. Send \in Asks(e)
  BY DEF Asks
<1>2. Asks(e) \subseteq SaidBy(e)
  BY DEF SaidBy
<1> QED BY <1>1, <1>2, KindsOfMessages, TwoEnds, DeviceSays, CommModuleSays DEF Plain, Negotiated

\* What a handler answers is what that end says.
LEMMA AnswerIsSaid ==
    ASSUME NEW e \in Ends, NEW to \in AskedBy(Peer(e)), NEW code \in {"OK", "NETR", "ISSS", "ERR"}
    PROVE  Response(code, to) \in SaidBy(e)
BY DEF SaidBy

-----------------------------------------------------------------------------
\* The queue of calls.
LEMMA OneCallQueue ==
    ASSUME NEW e \in Ends, NEW m \in SaidBy(e)
    PROVE  /\ Queue(e, <<Call(m)>>)
           /\ <<Call(m)>> # <<>> /\ Head(<<Call(m)>>) = Call(m) /\ Tail(<<Call(m)>>) = <<>>
           /\ Call(m).message = m /\ ~Call(m).received
BY DEF Queue, Call

LEMMA RestartQueue ==
    ASSUME NEW e \in Ends, NEW a
    PROVE  /\ Queue(e, RestartSend(a))
           /\ RestartSend(a) # <<>> =>
                 Head(RestartSend(a)) = Call(Send) /\ Tail(RestartSend(a)) = <<>>
BY OneCallQueue, BothSay DEF RestartSend, Queue

LEMMA JoinedCalls ==
    ASSUME NEW q \in Seq(CallRecords), NEW x \in CallRecords
    PROVE  /\ <<>> \o q = q
           /\ <<x>> \o q # <<>> /\ Head(<<x>> \o q) = x /\ Tail(<<x>> \o q) = q
<1>1. <<>> \o q = q
  OBVIOUS
<1>2. /\ <<x>> \in Seq(CallRecords) /\ Len(<<x>>) = 1 /\ Len(q) \in Nat
      /\ <<x>> \o q \in Seq(CallRecords) /\ Len(<<x>> \o q) = 1 + Len(q)
      /\ \A i \in 1..(1 + Len(q)) : (<<x>> \o q)[i] = IF i = 1 THEN x ELSE q[i - 1]
  OBVIOUS
<1> DEFINE r == <<x>> \o q
<1> HIDE DEF r
<1>3. r # <<>> /\ Head(r) = x
  BY <1>2 DEF r
<1>4. Tail(r) = q
  <2>1. Tail(r) \in Seq(CallRecords) /\ Len(Tail(r)) = Len(q)
    BY <1>2, <1>3 DEF r
  <2>2. \A i \in 1..Len(q) : Tail(r)[i] = q[i]
    BY <1>2, <1>3 DEF r
  <2> QED BY <2>1, <2>2
<1> QED BY <1>1, <1>3, <1>4 DEF r

-----------------------------------------------------------------------------
\* Most steps of an end are calm: they move neither its state nor what it knows of the
\* other, and call nothing that does.
Like(t, s) ==
    /\ t.state = s.state
    /\ t.pending \in {s.pending, "none"}
    /\ t.delayed = s.delayed
    /\ s.resetNeeded => t.resetNeeded
    /\ t.negotiateComplete = s.negotiateComplete
    /\ t.haveConfiguration = s.haveConfiguration
    /\ t.commModulePresent = s.commModulePresent

Calm(e) ==
    /\ Like(status'[e], status[e])
    /\ running[e] = "resetting" <=> running'[e] = "resetting"
    /\ baud'[e] = baud[e]
    /\ rx'[e] \in {rx[e], NoMessage}
    /\ \/ calls'[e] = calls[e]
       \/ ~Calling(e) /\ \E m \in Plain(e) : calls'[e] = <<Call(m)>>

\* A step of one end leaves the other alone, but for what it receives.
Leaves(e) ==
    /\ status'[e] = status[e]
    /\ running'[e] = running[e]
    /\ calls'[e] = calls[e]
    /\ baud'[e] = baud[e]

Ignores(e) == Leaves(e) /\ rx'[e] = rx[e]

\* What a step of one end keeps of the other.
LEMMA DeviceIsLeft ==
    ASSUME DeviceIsConsistent, Leaves(Device)
    PROVE  DeviceIsConsistent'
BY DEF DeviceIsConsistent, Leaves

LEMMA CommModuleIsLeft ==
    ASSUME CommModuleIsConsistent, Leaves(CommModule)
    PROVE  CommModuleIsConsistent'
BY DEF CommModuleIsConsistent, Leaves, WillNegotiate, Calls, Calling

LEMMA ConfigurationIsLeft ==
    ASSUME Ignores(CommModule)
    PROVE  HasConfiguration' <=> HasConfiguration
BY DEF HasConfiguration, Leaves, Ignores, Calls, Calling

LEMMA KnowledgeIsLeft ==
    ASSUME Leaves(Device), baud'[CommModule] = baud[CommModule],
           rx'[Device] = rx[Device] \/ rx'[Device] # Negotiate, DeviceKnows
    PROVE  DeviceKnows'
BY DEF DeviceKnows, Leaves, Calls, Calling

LEMMA RolesAreKept ==
    ASSUME TypeOK, Roles, NEW e \in Ends, Leaves(Peer(e)),
           Queue(e, calls'[e]),
           rx'[e] \in {rx[e], NoMessage},
           rx'[Peer(e)] \in {rx[Peer(e)]} \cup SaidBy(e),
           status'[e].delayed \subseteq Asks(e) \ {Send},
           status'[e].pending \in {"none"} \cup {m.kind : m \in Asks(e)}
    PROVE  Roles'
<1> SUFFICES ASSUME NEW x \in Ends
             PROVE  /\ Queue(x, calls'[x])
                    /\ rx'[x] \in SaidBy(Peer(x)) \cup {NoMessage}
                    /\ status'[x].delayed \subseteq Asks(x) \ {Send}
                    /\ status'[x].pending \in {"none"} \cup {m.kind : m \in Asks(x)}
  BY DEF Roles, Queue, SaidBy
<1>1. x = e \/ x = Peer(e)
  BY TwoEnds DEF Ends
<1>2. /\ Queue(x, calls[x])
      /\ rx[x] \in SaidBy(Peer(x)) \cup {NoMessage}
      /\ status[x].delayed \subseteq Asks(x) \ {Send}
      /\ status[x].pending \in {"none"} \cup {m.kind : m \in Asks(x)}
  BY DEF Roles
<1>3. CASE x = e
  BY <1>2, <1>3
<1>4. CASE x = Peer(e)
  <2>1. Peer(x) = e
    BY <1>4, TwoEnds
  <2> QED
    BY <1>2, <1>4, <2>1 DEF Leaves
<1> QED BY <1>1, <1>3, <1>4

LEMMA CalmIsConsistent ==
    ASSUME LinkInv, NEW e \in Ends, Calm(e), Ignores(Peer(e))
    PROVE  Consistent'
<1> USE DEF LinkInv, Consistent
<1>1. ASSUME ~Calling(e), NEW m \in Plain(e), calls'[e] = <<Call(m)>>
      PROVE  /\ Queue(e, calls'[e])
             /\ Head(calls'[e]).message = m /\ Tail(calls'[e]) = <<>>
             /\ m \notin {Negotiate, GetConfig, Negotiated}
  BY <1>1, OneCallQueue DEF Plain
<1>2. Queue(e, calls'[e])
  <2>1. Queue(e, calls[e])
    BY DEF Roles
  <2> QED BY <1>1, <2>1 DEF Calm, Like
<1>3. Roles'
  <2>1. status[e].delayed \subseteq Asks(e) \ {Send}
        /\ status[e].pending \in {"none"} \cup {m.kind : m \in Asks(e)}
    BY DEF Roles
  <2>2. status'[e].delayed \subseteq Asks(e) \ {Send}
        /\ status'[e].pending \in {"none"} \cup {m.kind : m \in Asks(e)}
    BY <2>1 DEF Calm, Like
  <2>3. Leaves(Peer(e)) /\ rx'[Peer(e)] = rx[Peer(e)] /\ rx'[e] \in {rx[e], NoMessage}
    BY DEF Ignores, Calm
  <2> QED BY <1>2, <2>2, <2>3, RolesAreKept
<1>4. \A x \in {Negotiate, GetConfig, Negotiated} : Calls(e, x)' => Calls(e, x)
  BY <1>1 DEF Calm, Like, Calls, Calling
<1>5. CASE e = Device
  <2>1. Ignores(CommModule)
    BY <1>5, TwoEnds
  <2>2. DeviceIsConsistent'
    BY <1>5 DEF Calm, Like, DeviceIsConsistent
  <2>3. Calls(Device, Configuration) /\ Head(calls[Device]).received
            => (Calls(Device, Configuration) /\ Head(calls[Device]).received)'
    BY <1>5 DEF Calm, Like, Calls, Calling
  <2>4. ~Calls(Device, Negotiated) => ~Calls(Device, Negotiated)'
    BY <1>4, <1>5
  <2>5. NoMessage # Negotiate
    BY KindsOfMessages
  <2>6. baud'[CommModule] = baud[CommModule]
    BY <2>1 DEF Ignores, Leaves
  <2>7. DeviceKnows => DeviceKnows'
    BY <1>5, <2>3, <2>4, <2>5, <2>6 DEF Calm, Like, DeviceKnows
  <2> QED
    BY <2>1, <2>2, <2>7, <1>3, CommModuleIsLeft, ConfigurationIsLeft DEF Ignores
<1>6. CASE e = CommModule
  <2>1. Ignores(Device)
    BY <1>6, TwoEnds
  <2>2. WillNegotiate' => WillNegotiate
    BY <1>1, <1>6 DEF Calm, Like, WillNegotiate, Calling
  <2>3. ~Calls(CommModule, GetConfig) => ~Calls(CommModule, GetConfig)'
    BY <1>4, <1>6
  <2>4. CommModuleIsConsistent'
    BY <1>6, <2>2, <2>3 DEF Calm, Like, CommModuleIsConsistent
  <2>5. NoMessage # Configuration
    BY KindsOfMessages DEF Configuration
  <2>6. HasConfiguration' => HasConfiguration
    BY <1>6, <2>3, <2>5 DEF Calm, Like, HasConfiguration
  <2>7. DeviceKnows => DeviceKnows'
    BY <1>6, <2>1, KnowledgeIsLeft DEF Ignores, Calm
  <2> QED
    BY <2>1, <2>4, <2>6, <2>7, <1>3, DeviceIsLeft DEF Ignores
<1> QED BY <1>5, <1>6, TwoEnds

\* The calm steps, of an end that is not calling.
LEMMA AnswersAreCalm ==
    ASSUME TypeOK, NEW e \in Ends, ~Calling(e),
           NEW code \in {"OK", "NETR", "ISSS", "ERR"}, NEW to \in AskedBy(Peer(e)) \ {"negotiate"},
           Answer(e, code, to)
    PROVE  /\ calls'[Peer(e)] = calls[Peer(e)]
           /\ ~Calling(e) /\ \E m \in Plain(e) : calls'[e] = <<Call(m)>>
<1>1. Response(code, to) \in SaidBy(e)
  BY AnswerIsSaid
<1>2. Response(code, to) \notin {Negotiate, GetConfig, Negotiated}
  BY KindsOfMessages DEF Negotiated
<1> QED BY <1>1, <1>2, TwoEnds DEF Answer, TypeOK, Plain

LEMMA RestartsAreCalm ==
    ASSUME TypeOK, NEW e \in Ends, ~Calling(e), NEW a, calls' = [calls EXCEPT ![e] = RestartSend(a)]
    PROVE  /\ calls'[Peer(e)] = calls[Peer(e)]
           /\ \/ calls'[e] = calls[e]
              \/ ~Calling(e) /\ \E m \in Plain(e) : calls'[e] = <<Call(m)>>
BY BothSay, TwoEnds DEF TypeOK, RestartSend, Calling

LEMMA RequestsHandled ==
    ASSUME LinkInv, NEW e \in Ends,
           \/ HandleGet(e)
           \/ HandleLinkControl(e)
           \/ HandleSendRefused(e)
           \/ HandleSend(e)
    PROVE  Calm(e) /\ Ignores(Peer(e))
<1> USE DEF LinkInv, Consistent
<1>1. /\ TypeOK /\ Peer(e) \in Ends /\ Peer(e) # e
      /\ status \in [Ends -> Statuses] /\ status[e] \in Statuses
      /\ rx \in [Ends -> Messages \cup {NoMessage}] /\ calls \in [Ends -> Seq(CallRecords)]
      /\ rx[e] \in SaidBy(Peer(e)) \cup {NoMessage}
  BY TwoEnds DEF TypeOK, CallRecords, Roles
<1>2. ASSUME NEW ms, Handles(e, ms)
      PROVE  /\ ~Calling(e)
             /\ running'[e] = running[e] /\ running'[Peer(e)] = running[Peer(e)]
             /\ rx'[e] = NoMessage /\ rx'[Peer(e)] = rx[Peer(e)]
             /\ rx[e] \in ms
  BY <1>1, <1>2 DEF Handles
<1>3. CASE HandleGet(e)
  <2>1. rx[e] \in {GetConfig, GetStatus}
    BY <1>2, <1>3 DEF HandleGet
  <2>2. rx[e].kind \in AskedBy(Peer(e)) \ {"negotiate"}
    <3>1. CASE e = Device
      BY <1>1, <2>1, <3>1, TwoEnds, CommModuleSays, KindsOfMessages DEF AskedBy
    <3>2. CASE e = CommModule
      BY <1>1, <2>1, <3>2, TwoEnds, DeviceSays, KindsOfMessages DEF AskedBy
    <3> QED BY <3>1, <3>2, TwoEnds
  <2>3. Answer(e, "OK", rx[e].kind)
    BY <1>3 DEF HandleGet
  <2>4. /\ calls'[Peer(e)] = calls[Peer(e)]
        /\ ~Calling(e) /\ \E m \in Plain(e) : calls'[e] = <<Call(m)>>
    BY <1>1, <1>2, <1>3, <2>2, <2>3, AnswersAreCalm DEF HandleGet
  <2>5. status' = [status EXCEPT ![e].inhibited = @ \/ rx[e] = GetConfig] /\ baud' = baud
    BY <1>3 DEF HandleGet
  <2> QED
    BY <1>1, <1>2, <1>3, <2>4, <2>5 DEF Calm, Like, Ignores, Leaves, HandleGet, Statuses
<1>4. CASE HandleLinkControl(e)
  <2>1. \E c \in Controls : rx[e] = Control(c)
    BY <1>2, <1>4 DEF HandleLinkControl
  <2>2. rx[e].control \in AskedBy(Peer(e)) \ {"negotiate"}
    <3>1. e # Device
      BY <1>1, <2>1, TwoEnds, CommModuleSays, KindsOfMessages
    <3>2. Peer(e) = Device
      BY <3>1, TwoEnds
    <3> QED
      BY <2>1, <3>2, KindsOfMessages DEF AskedBy, Controls
  <2>3. Answer(e, "OK", rx[e].control) /\ status' = status /\ baud' = baud
    BY <1>4 DEF HandleLinkControl
  <2>4. /\ calls'[Peer(e)] = calls[Peer(e)]
        /\ ~Calling(e) /\ \E m \in Plain(e) : calls'[e] = <<Call(m)>>
    BY <1>1, <1>2, <1>4, <2>2, <2>3, AnswersAreCalm DEF HandleLinkControl
  <2> QED
    BY <1>1, <1>2, <1>4, <2>3, <2>4 DEF Calm, Like, Ignores, Leaves, HandleLinkControl
<1>5. "send" \in AskedBy(Peer(e)) \ {"negotiate"}
  BY TwoEnds DEF AskedBy
<1>6. CASE HandleSendRefused(e)
  <2>1. \E code \in {"OK", "NETR", "ISSS", "ERR"} : Answer(e, code, "send")
    BY <1>6 DEF HandleSendRefused
  <2>2. status' = status /\ baud' = baud
    BY <1>6 DEF HandleSendRefused
  <2>3. /\ calls'[Peer(e)] = calls[Peer(e)]
        /\ ~Calling(e) /\ \E m \in Plain(e) : calls'[e] = <<Call(m)>>
    BY <1>1, <1>2, <1>5, <1>6, <2>1, AnswersAreCalm DEF HandleSendRefused
  <2> QED
    BY <1>1, <1>2, <1>6, <2>2, <2>3 DEF Calm, Like, Ignores, Leaves, HandleSendRefused
<1>7. CASE HandleSend(e)
  <2>1. baud' = baud /\ ~Calling(e)
    BY <1>2, <1>7 DEF HandleSend
  <2>2. CASE status' = [status EXCEPT ![e].okOwed = TRUE] /\ UNCHANGED calls
    BY <1>1, <1>2, <1>7, <2>1, <2>2 DEF Calm, Like, Ignores, Leaves, HandleSend, Statuses
  <2>3. CASE (\E code \in {"OK", "ERR"} : Answer(e, code, "send")) /\ UNCHANGED status
    <3>1. \E code \in {"OK", "NETR", "ISSS", "ERR"} : Answer(e, code, "send")
      BY <2>3
    <3>2. /\ calls'[Peer(e)] = calls[Peer(e)]
          /\ ~Calling(e) /\ \E m \in Plain(e) : calls'[e] = <<Call(m)>>
      BY <1>1, <1>5, <2>1, <3>1, AnswersAreCalm
    <3> QED
      BY <1>1, <1>2, <1>7, <2>1, <2>3, <3>2 DEF Calm, Like, Ignores, Leaves, HandleSend
  <2> QED BY <1>7, <2>2, <2>3 DEF HandleSend
<1> QED BY <1>3, <1>4, <1>6, <1>7

\* Without a call, and with the same messages, only the status has to be looked at.
LEMMA QuietIsCalm ==
    ASSUME TypeOK, NEW e \in Ends, NEW t,
           status' = [status EXCEPT ![e] = t],
           Like(t, status[e]),
           running' = running, baud' = baud,
           rx' = rx \/ rx' = [rx EXCEPT ![e] = NoMessage],
           calls' = calls \/ (~Calling(e) /\ \E a : calls' = [calls EXCEPT ![e] = RestartSend(a)])
    PROVE  Calm(e) /\ Ignores(Peer(e))
<1>1. Peer(e) \in Ends /\ Peer(e) # e
  BY TwoEnds
<1>2. status'[e] = t /\ status'[Peer(e)] = status[Peer(e)]
  BY <1>1 DEF TypeOK
<1>3. rx'[e] \in {rx[e], NoMessage} /\ rx'[Peer(e)] = rx[Peer(e)]
  BY <1>1 DEF TypeOK
<1>4. /\ calls'[Peer(e)] = calls[Peer(e)]
      /\ \/ calls'[e] = calls[e]
         \/ ~Calling(e) /\ \E m \in Plain(e) : calls'[e] = <<Call(m)>>
  BY RestartsAreCalm
<1> QED BY <1>2, <1>3, <1>4 DEF Calm, Ignores, Leaves

LEMMA ResponsesHandled ==
    ASSUME TypeOK, NEW e \in Ends,
           \/ HandleBadResponse(e)
           \/ HandleNETR(e)
           \/ HandleFailedSend(e)
           \/ HandleSent(e)
           \/ HandleOther(e)
    PROVE  Calm(e) /\ Ignores(Peer(e))
<1>1. status[e] \in Statuses
  BY DEF TypeOK
<1>2. ASSUME NEW ms, Handles(e, ms)
      PROVE  ~Calling(e) /\ running' = running /\ rx' = [rx EXCEPT ![e] = NoMessage]
  BY <1>2 DEF Handles
<1> DEFINE t == Clear(status[e])
           u == [Clear(status[e]) EXCEPT !.failureOwed = TRUE]
<1>3. Like(t, status[e])
  BY <1>1 DEF Like, Clear, Statuses
<1>4. Like(u, status[e])
  BY <1>1 DEF Like, Clear, Statuses
<1>5. CASE HandleBadResponse(e)
  <2>1. status' = [status EXCEPT ![e] = t] /\ calls' = calls /\ baud' = baud
    BY <1>5 DEF HandleBadResponse
  <2>2. running' = running /\ rx' = [rx EXCEPT ![e] = NoMessage]
    BY <1>2, <1>5 DEF HandleBadResponse
  <2> HIDE DEF t
  <2> QED BY <1>3, <2>1, <2>2, QuietIsCalm
<1>6. CASE HandleNETR(e)
  <2>1. status' = [status EXCEPT ![e] = u] /\ calls' = calls /\ baud' = baud
    BY <1>6 DEF HandleNETR
  <2>2. running' = running /\ rx' = [rx EXCEPT ![e] = NoMessage]
    BY <1>2, <1>6 DEF HandleNETR
  <2> HIDE DEF u
  <2> QED BY <1>4, <2>1, <2>2, QuietIsCalm
<1>7. CASE HandleFailedSend(e)
  <2>1. /\ status' = [status EXCEPT ![e] = t] /\ baud' = baud
        /\ calls' = [calls EXCEPT ![e] = RestartSend(al[e])]
    BY <1>7 DEF HandleFailedSend
  <2>2. ~Calling(e) /\ running' = running /\ rx' = [rx EXCEPT ![e] = NoMessage]
    BY <1>2, <1>7 DEF HandleFailedSend
  <2> HIDE DEF t
  <2> QED BY <1>3, <2>1, <2>2, QuietIsCalm
<1>8. CASE HandleSent(e)
  <2>1. status' = [status EXCEPT ![e] = t] /\ calls' = calls /\ baud' = baud
    BY <1>8 DEF HandleSent
  <2>2. running' = running /\ rx' = [rx EXCEPT ![e] = NoMessage]
    BY <1>2, <1>8 DEF HandleSent
  <2> HIDE DEF t
  <2> QED BY <1>3, <2>1, <2>2, QuietIsCalm
<1>9. CASE HandleOther(e)
  <2>1. status' = [status EXCEPT ![e] = t] /\ calls' = calls /\ baud' = baud
    BY <1>9 DEF HandleOther
  <2>2. running' = running /\ rx' = [rx EXCEPT ![e] = NoMessage]
    BY <1>2, <1>9 DEF HandleOther
  <2> HIDE DEF t
  <2> QED BY <1>3, <2>1, <2>2, QuietIsCalm
<1> QED BY <1>5, <1>6, <1>7, <1>8, <1>9

LEMMA TimePasses ==
    ASSUME TypeOK, NEW e \in Ends,
           \/ FailureIsDue(e)
           \/ WaitABit(e)
           \/ WaitEnds(e)
           \/ RequestTimesOut(e)
           \/ InhibitionEnds(e)
           \/ SendTimesOut(e)
           \/ ResetRequested(e)
           \/ e = Device /\ InhibitOptionalCommunication
    PROVE  Calm(e) /\ Ignores(Peer(e))
<1>1. /\ status[e] \in Statuses /\ status = [status EXCEPT ![e] = status[e]]
      /\ Peer(e) \in Ends /\ Peer(e) # e /\ running \in [Ends -> {"idle", "resetting", "deaf"}]
  BY TwoEnds DEF TypeOK
<1>2. CASE FailureIsDue(e)
  <2> DEFINE t == [status[e] EXCEPT !.failureOwed = FALSE]
  <2>1. /\ status' = [status EXCEPT ![e] = t] /\ baud' = baud /\ running' = running /\ rx' = rx
        /\ calls' = [calls EXCEPT ![e] = RestartSend(al[e])] /\ ~Calling(e)
    BY <1>2 DEF FailureIsDue, Polled, Idle
  <2>2. Like(t, status[e])
    BY <1>1 DEF Like, Statuses
  <2> HIDE DEF t
  <2> QED BY <2>1, <2>2, QuietIsCalm
<1>3. CASE WaitABit(e)
  BY <1>1, <1>3 DEF WaitABit, Polled, Idle, Calm, Like, Ignores, Leaves
<1>4. CASE WaitEnds(e)
  BY <1>1, <1>4 DEF WaitEnds, Calm, Like, Ignores, Leaves
<1>5. CASE RequestTimesOut(e)
  <2> DEFINE t == Clear(status[e])
  <2>1. /\ status' = [status EXCEPT ![e] = t] /\ baud' = baud /\ running' = running /\ rx' = rx
        /\ ~Calling(e)
        /\ calls' = calls \/ calls' = [calls EXCEPT ![e] = RestartSend(al[e])]
    BY <1>5 DEF RequestTimesOut, Polled, Idle
  <2>2. Like(t, status[e])
    BY <1>1 DEF Like, Statuses, Clear
  <2> HIDE DEF t
  <2> QED BY <2>1, <2>2, QuietIsCalm
<1>6. CASE InhibitionEnds(e)
  <2> DEFINE t == [status[e] EXCEPT !.inhibited = FALSE]
  <2>1. /\ status' = [status EXCEPT ![e] = t] /\ baud' = baud /\ running' = running /\ rx' = rx
        /\ calls' = calls
    BY <1>6 DEF InhibitionEnds
  <2>2. Like(t, status[e])
    BY <1>1 DEF Like, Statuses
  <2> HIDE DEF t
  <2> QED BY <2>1, <2>2, QuietIsCalm
<1>7. CASE SendTimesOut(e)
  <2>1. /\ status' = [status EXCEPT ![e] = status[e]] /\ Like(status[e], status[e])
        /\ baud' = baud /\ running' = running
        /\ rx' = rx /\ calls' = [calls EXCEPT ![e] = RestartSend(al[e])] /\ ~Calling(e)
    BY <1>1, <1>7 DEF SendTimesOut, Like, Polled, Idle
  <2> QED BY <2>1, QuietIsCalm
<1>8. CASE ResetRequested(e)
  <2> DEFINE t == [status[e] EXCEPT !.resetNeeded = TRUE]
  <2>1. /\ status' = [status EXCEPT ![e] = t] /\ baud' = baud /\ running' = running /\ rx' = rx
        /\ calls' = calls
    BY <1>8 DEF ResetRequested
  <2>2. Like(t, status[e])
    BY <1>1 DEF Like, Statuses
  <2> HIDE DEF t
  <2> QED BY <2>1, <2>2, QuietIsCalm
<1>9. CASE e = Device /\ InhibitOptionalCommunication
  <2> DEFINE t == [status[e] EXCEPT !.inhibited = TRUE]
  <2>1. /\ status' = [status EXCEPT ![e] = t] /\ baud' = baud /\ running' = running /\ rx' = rx
        /\ calls' = calls
    BY <1>9 DEF InhibitOptionalCommunication
  <2>2. Like(t, status[e])
    BY <1>1 DEF Like, Statuses
  <2> HIDE DEF t
  <2> QED BY <2>1, <2>2, QuietIsCalm
<1> QED BY <1>2, <1>3, <1>4, <1>5, <1>6, <1>7, <1>8, <1>9

\* A request for the status while the device shall be quiet.
IsPutOff(m) == m = GetStatus /\ status[Device].inhibited

LEMMA ApplicationSends ==
    ASSUME TypeOK, NEW e \in Ends,
           \/ SendMessage(e)
           \/ SendOKResponse(e)
           \/ e = Device /\ \E m \in DeviceRequests : DeviceRequest(m) /\ ~IsPutOff(m)
    PROVE  Calm(e) /\ Ignores(Peer(e))
<1>1. status[e] \in Statuses /\ Peer(e) \in Ends /\ Peer(e) # e
  BY TwoEnds DEF TypeOK
<1>2. CASE SendMessage(e)
  <2>1. ~Calling(e) /\ calls'[e] = <<Call(Send)>> /\ calls'[Peer(e)] = calls[Peer(e)]
    BY <1>1, <1>2 DEF SendMessage, Idle, TypeOK
  <2>2. \E m \in Plain(e) : calls'[e] = <<Call(m)>>
    BY <2>1, BothSay
  <2> QED BY <1>2, <2>1, <2>2 DEF SendMessage, Calm, Like, Ignores, Leaves
<1>3. CASE SendOKResponse(e)
  <2>1. ~Calling(e) /\ Answer(e, "OK", "send")
    BY <1>3 DEF SendOKResponse, Idle
  <2>2. "send" \in AskedBy(Peer(e)) \ {"negotiate"}
    BY DEF AskedBy
  <2>3. /\ calls'[Peer(e)] = calls[Peer(e)]
        /\ ~Calling(e) /\ \E m \in Plain(e) : calls'[e] = <<Call(m)>>
    BY <2>1, <2>2, AnswersAreCalm
  <2>4. /\ status' = [status EXCEPT ![e].okOwed = FALSE] /\ running' = running
        /\ rx' = rx /\ baud' = baud
    BY <1>3 DEF SendOKResponse
  <2> QED BY <1>1, <2>3, <2>4 DEF Calm, Like, Ignores, Leaves, TypeOK, Statuses
<1>4. ASSUME e = Device, NEW m \in DeviceRequests, DeviceRequest(m), ~IsPutOff(m)
      PROVE  Calm(e) /\ Ignores(Peer(e))
  <2>1. /\ ~Calling(e) /\ calls'[e] = <<Call(m)>> /\ calls'[Peer(e)] = calls[Peer(e)]
        /\ status' = status
    BY <1>1, <1>4 DEF DeviceRequest, IsPutOff, Idle, TypeOK
  <2>2. m \in Asks(e)
    BY <1>4, TransportAssumption DEF Asks
  <2>3. m.kind \in {"linkcontrol", "status"}
    BY TransportAssumption, KindsOfMessages
  <2>4. m \in Plain(e)
    BY <2>2, <2>3, BothSay, KindsOfMessages DEF Plain, Negotiated
  <2> QED BY <1>4, <2>1, <2>4 DEF DeviceRequest, Calm, Like, Ignores, Leaves
<1> QED BY <1>2, <1>3, <1>4

\* A request that is put off is among the delayed ones, and nothing else changes.
LEMMA StatusIsPutOff ==
    ASSUME LinkInv, NEW m \in DeviceRequests, DeviceRequest(m), IsPutOff(m)
    PROVE  Consistent'
<1> USE DEF LinkInv, Consistent
<1> DEFINE t == Delayed(status[Device], m)
<1>1. /\ status' = [status EXCEPT ![Device] = t]
      /\ running' = running /\ calls' = calls /\ rx' = rx /\ baud' = baud
  BY DEF DeviceRequest, IsPutOff
<1>2. /\ Device \in Ends /\ CommModule \in Ends /\ Peer(Device) = CommModule
      /\ Device # CommModule /\ status[Device] \in Statuses
  BY TwoEnds DEF TypeOK
<1>3. /\ t.delayed \subseteq status[Device].delayed \cup {m}
      /\ t.pending = status[Device].pending /\ t.state = status[Device].state
      /\ t.resetNeeded = status[Device].resetNeeded
      /\ t.negotiateComplete = status[Device].negotiateComplete
      /\ t.haveConfiguration = status[Device].haveConfiguration
      /\ t.commModulePresent = status[Device].commModulePresent
  BY <1>2 DEF Delayed, Statuses
<1> HIDE DEF t
<1>4. status'[Device] = t /\ Ignores(CommModule)
  BY <1>1, <1>2 DEF TypeOK, Ignores, Leaves
<1>5. Roles'
  <2>1. m \in Asks(Device) \ {Send}
    BY KindsOfMessages DEF IsPutOff, Asks
  <2>2. /\ Queue(Device, calls[Device])
        /\ status[Device].delayed \subseteq Asks(Device) \ {Send}
        /\ status[Device].pending \in {"none"} \cup {x.kind : x \in Asks(Device)}
    BY <1>2 DEF Roles
  <2> QED BY <1>1, <1>2, <1>3, <1>4, <2>1, <2>2, RolesAreKept DEF Ignores
<1>6. DeviceIsConsistent' /\ CommModuleIsConsistent'
  BY <1>3, <1>4, CommModuleIsLeft DEF DeviceIsConsistent, Ignores
<1>7. HasConfiguration' => DeviceKnows'
  BY <1>1, <1>3, <1>4, ConfigurationIsLeft DEF DeviceKnows, Calls, Calling
<1> QED BY <1>5, <1>6, <1>7

-----------------------------------------------------------------------------
\* The other steps, one by one.  First what both ends do.
LEMMA NegotiationIsAsked ==
    ASSUME LinkInv, NEW e \in Ends, HandleNegotiate(e)
    PROVE  Consistent'
<1> USE DEF LinkInv, Consistent
<1>1. rx[e] = Negotiate
  BY DEF HandleNegotiate, Handles
<1>2. e = Device
  BY <1>1, TwoEnds, DeviceSays, KindsOfMessages DEF Roles
<1>3. Ignores(CommModule) /\ Peer(Device) = CommModule
  BY <1>2, TwoEnds DEF HandleNegotiate, Handles, Answer, Ignores, Leaves, TypeOK
<1>4. Negotiated \in SaidBy(Device)
  BY TwoEnds, AnswerIsSaid DEF Negotiated, AskedBy
<1>5. ~Calling(Device) /\ calls'[Device] = <<Call(Negotiated)>>
  BY <1>2 DEF HandleNegotiate, Handles, Answer, TypeOK, Negotiated
<1>6. /\ status'[Device] = [status[Device] EXCEPT !.inhibited = TRUE]
      /\ baud' = baud /\ running' = running /\ rx'[Device] = NoMessage
  BY <1>2 DEF HandleNegotiate, Handles, TypeOK
<1>7. /\ status'[Device].delayed = status[Device].delayed
      /\ status'[Device].pending = status[Device].pending
      /\ status'[Device].haveConfiguration = status[Device].haveConfiguration
      /\ status'[Device].state = status[Device].state
      /\ status'[Device].negotiateComplete = status[Device].negotiateComplete
      /\ status'[Device].commModulePresent = status[Device].commModulePresent
      /\ status'[Device].resetNeeded = status[Device].resetNeeded
  BY <1>6 DEF TypeOK, Statuses
<1>8. Roles'
  <2>1. Queue(Device, calls'[Device])
    BY <1>4, <1>5, OneCallQueue, TwoEnds
  <2>2. /\ status'[Device].delayed \subseteq Asks(Device) \ {Send}
        /\ status'[Device].pending \in {"none"} \cup {m.kind : m \in Asks(Device)}
    BY <1>7, TwoEnds DEF Roles
  <2>3. Leaves(CommModule) /\ rx'[CommModule] = rx[CommModule]
    BY <1>3 DEF Ignores
  <2> QED BY <1>3, <1>6, <2>1, <2>2, <2>3, TwoEnds, RolesAreKept
<1>9. DeviceIsConsistent'
  BY <1>7 DEF DeviceIsConsistent
<1>10. DeviceKnows => DeviceKnows'
  <2>1. rx[Device] = Negotiate /\ ~Calls(Device, Configuration)
    BY <1>1, <1>2, <1>5 DEF Calls
  <2> QED BY <1>6, <1>7, <2>1 DEF DeviceKnows
<1> QED
  BY <1>3, <1>8, <1>9, <1>10, CommModuleIsLeft, ConfigurationIsLeft DEF Ignores

LEMMA LinkIsReset ==
    ASSUME LinkInv, NEW e \in Ends, RunReset(e)
    PROVE  Consistent'
<1> USE DEF LinkInv, Consistent
<1>1. /\ running'[e] = "resetting"
      /\ status'[e].delayed = status[e].delayed
      /\ status'[e].pending = status[e].pending
      /\ status'[e].haveConfiguration = status[e].haveConfiguration
      /\ status'[e].state = "INIT"
      /\ rx' = rx /\ baud' = baud
  <2>0. status[e] \in Statuses
    BY DEF TypeOK
  <2> DEFINE s == StartOver(status[e])
  <2>1. /\ s \in Statuses
        /\ s.delayed = status[e].delayed /\ s.pending = status[e].pending
        /\ s.haveConfiguration = status[e].haveConfiguration /\ s.state = "INIT"
    BY <2>0 DEF StartOver, Statuses
  <2>2. status'[e] = s \/ status'[e] = [s EXCEPT !.negotiateComplete = FALSE]
    BY DEF RunReset, TypeOK
  <2>3. running'[e] = "resetting" /\ rx' = rx /\ baud' = baud
    BY DEF RunReset, TypeOK
  <2> HIDE DEF s
  <2> QED BY <2>1, <2>2, <2>3 DEF Statuses
<1>2. Ignores(Peer(e)) /\ Peer(e) \in Ends
  BY TwoEnds DEF RunReset, Ignores, Leaves, TypeOK
<1>3. calls'[e] = calls[e] \/ (e = Device /\ calls'[e] = <<Call(Control("reset"))>>)
  BY DEF RunReset, TypeOK
<1>4. Control("reset") \in SaidBy(Device)
  BY DEF SaidBy, Asks, Controls
<1>5. Roles'
  <2>1. Queue(e, calls'[e])
    BY <1>3, <1>4, OneCallQueue DEF Roles
  <2>2. /\ status'[e].delayed \subseteq Asks(e) \ {Send}
        /\ status'[e].pending \in {"none"} \cup {m.kind : m \in Asks(e)}
    BY <1>1 DEF Roles
  <2>3. Leaves(Peer(e)) /\ rx'[Peer(e)] = rx[Peer(e)]
    BY <1>2 DEF Ignores
  <2> QED BY <1>1, <2>1, <2>2, <2>3, RolesAreKept
<1>6. CASE e = Device
  <2>1. DeviceIsConsistent' /\ DeviceKnows'
    BY <1>1, <1>6 DEF DeviceIsConsistent, DeviceKnows
  <2> QED BY <1>2, <1>5, <1>6, <2>1, TwoEnds, CommModuleIsLeft DEF Ignores
<1>7. CASE e = CommModule
  <2>1. calls'[CommModule] = calls[CommModule]
    BY <1>3, <1>7, TwoEnds
  <2>2. /\ WillNegotiate' => WillNegotiate
        /\ Calls(CommModule, GetConfig)' => Calls(CommModule, GetConfig)
    BY <2>1 DEF WillNegotiate, Calls, Calling
  <2>3. CommModuleIsConsistent' /\ ~HasConfiguration'
    BY <1>1, <1>7, <2>2 DEF CommModuleIsConsistent, HasConfiguration
  <2> QED BY <1>2, <1>5, <1>7, <2>3, TwoEnds, DeviceIsLeft DEF Ignores
<1> QED BY <1>6, <1>7, TwoEnds

LEMMA LinkIsInitialized ==
    ASSUME LinkInv, NEW e \in Ends, RunInit(e)
    PROVE  Consistent'
<1> USE DEF LinkInv, Consistent
<1>1. /\ status'[e].delayed = status[e].delayed
      /\ status'[e].pending = "none"
      /\ status'[e].haveConfiguration = (e = Device)
      /\ status'[e].state = "DISCONNECTED"
      /\ ~status'[e].negotiateComplete
  BY DEF RunInit, Clear, TypeOK, Statuses
<1>2. /\ rx' = rx /\ baud' = baud /\ rx[e] = NoMessage /\ ~Calling(e)
      /\ Ignores(Peer(e)) /\ Peer(e) \in Ends
  BY TwoEnds DEF RunInit, Ignores, Leaves, TypeOK
<1>3. /\ Negotiate \in SaidBy(CommModule)
      /\ Send \in SaidBy(e) /\ NoMessage # Negotiate /\ Send # Negotiated /\ Send # GetConfig
      /\ Negotiate # GetConfig /\ NoMessage # Configuration
  BY BothSay, TwoEnds, KindsOfMessages DEF SaidBy, Asks, Negotiated, Configuration
<1> DEFINE r == IF status[e].pending = "send" THEN RestartSend(al[e]) ELSE <<>>
           n == IF e = CommModule THEN <<Call(Negotiate)>> ELSE <<>>
<1>4. calls'[e] = r \o n
  BY DEF RunInit, TypeOK
<1>5. r = <<>> \/ r = <<Call(Send)>>
  BY DEF RestartSend
<1>6. /\ <<>> \o n = n
      /\ <<Call(Send)>> \o n # <<>> /\ Head(<<Call(Send)>> \o n) = Call(Send)
      /\ Tail(<<Call(Send)>> \o n) = n
  <2>1. Negotiate \in Messages /\ Send \in Messages
    BY RequestsAreMessages
  <2>2. n \in Seq(CallRecords)
    BY <2>1, OneCall
  <2>3. Call(Send) \in CallRecords
    BY <2>1 DEF Call, CallRecords
  <2> HIDE DEF n
  <2> QED BY <2>2, <2>3, JoinedCalls
<1> HIDE DEF r
<1>7. calls'[e] = n \/ (calls'[e] # <<>> /\ Head(calls'[e]) = Call(Send) /\ Tail(calls'[e]) = n)
  BY <1>4, <1>5, <1>6
<1>8. /\ Call(Send).message = Send /\ Call(Negotiate).message = Negotiate
      /\ <<Call(Negotiate)>> # <<>>
      /\ Head(<<Call(Negotiate)>>) = Call(Negotiate) /\ Tail(<<Call(Negotiate)>>) = <<>>
  BY DEF Call
<1>9. Queue(e, calls'[e])
  <2>1. CASE e = CommModule
    BY <1>3, <1>7, <1>8, <2>1 DEF Queue
  <2>2. CASE e # CommModule
    BY <1>3, <1>7, <1>8, <2>2 DEF Queue
  <2> QED BY <2>1, <2>2
<1>10. Roles'
  <2>1. /\ status'[e].delayed \subseteq Asks(e) \ {Send}
        /\ status'[e].pending \in {"none"} \cup {m.kind : m \in Asks(e)}
    BY <1>1 DEF Roles
  <2>2. Leaves(Peer(e)) /\ rx'[Peer(e)] = rx[Peer(e)]
    BY <1>2 DEF Ignores
  <2> QED BY <1>2, <1>9, <2>1, <2>2, RolesAreKept
<1>11. CASE e = Device
  <2>1. Head(calls'[Device]).message = Send \/ calls'[Device] = <<>>
    BY <1>7, <1>8, <1>11, TwoEnds
  <2>2. ~Calls(Device, Negotiated)'
    BY <1>3, <2>1 DEF Calls, Calling
  <2>3. DeviceIsConsistent' /\ DeviceKnows'
    BY <1>1, <1>2, <1>3, <1>11, <2>2 DEF DeviceIsConsistent, DeviceKnows
  <2> QED BY <1>2, <1>10, <1>11, <2>3, TwoEnds, CommModuleIsLeft DEF Ignores
<1>12. CASE e = CommModule
  <2>1. Head(calls'[CommModule]).message \in {Send, Negotiate}
    BY <1>7, <1>8, <1>12
  <2>2. ~Calls(CommModule, GetConfig)'
    BY <1>3, <2>1 DEF Calls
  <2>3. ~status'[CommModule].haveConfiguration
    BY <1>1, <1>12, TwoEnds
  <2>4. CommModuleIsConsistent' /\ ~HasConfiguration'
    BY <1>1, <1>2, <1>3, <1>12, <2>2, <2>3 DEF CommModuleIsConsistent, HasConfiguration
  <2> QED BY <1>2, <1>10, <1>12, <2>4, TwoEnds, DeviceIsLeft DEF Ignores
<1> QED BY <1>11, <1>12, TwoEnds

\* What the communication module alone does.
LEMMA CommModuleActs ==
    ASSUME LinkInv, Ignores(Device),
           Queue(CommModule, calls'[CommModule]),
           rx'[CommModule] \in {rx[CommModule], NoMessage},
           status'[CommModule].delayed \subseteq status[CommModule].delayed,
           status'[CommModule].pending \in {status[CommModule].pending, "none"},
           CommModuleIsConsistent',
           HasConfiguration' => HasConfiguration /\ baud'[CommModule] = baud[CommModule]
    PROVE  Consistent'
<1> USE DEF LinkInv, Consistent
<1>1. /\ status'[CommModule].delayed \subseteq Asks(CommModule) \ {Send}
      /\ status'[CommModule].pending \in {"none"} \cup {m.kind : m \in Asks(CommModule)}
  BY TwoEnds DEF Roles
<1>2. Leaves(Peer(CommModule)) /\ rx'[Peer(CommModule)] = rx[Peer(CommModule)]
  BY TwoEnds DEF Ignores
<1>3. Roles'
  BY <1>1, <1>2, TwoEnds, RolesAreKept
<1>4. DeviceIsConsistent' /\ (HasConfiguration' => DeviceKnows')
  BY DeviceIsLeft, KnowledgeIsLeft DEF Ignores
<1> QED BY <1>3, <1>4

LEMMA PendingKinds ==
    ASSUME Roles
    PROVE  /\ status[Device].pending \in {"none", "linkcontrol", "status", "send"}
           /\ status[CommModule].pending \in {"none", "negotiate", "getconfig", "send"}
           /\ status[Device].delayed \subseteq {Control(c) : c \in Controls} \cup {GetStatus}
           /\ status[CommModule].delayed \subseteq {Negotiate, GetConfig}
<1>1. /\ status[Device].pending \in {"none"} \cup {m.kind : m \in Asks(Device)}
      /\ status[CommModule].pending \in {"none"} \cup {m.kind : m \in Asks(CommModule)}
      /\ status[Device].delayed \subseteq Asks(Device) \ {Send}
      /\ status[CommModule].delayed \subseteq Asks(CommModule) \ {Send}
  BY TwoEnds DEF Roles
<1>2. /\ \A m \in Asks(Device) : m.kind \in {"linkcontrol", "status", "send"}
      /\ \A m \in Asks(CommModule) : m.kind \in {"negotiate", "getconfig", "send"}
  BY KindsOfMessages, TwoEnds DEF Asks
<1>3. /\ Asks(Device) \ {Send} \subseteq {Control(c) : c \in Controls} \cup {GetStatus}
      /\ Asks(CommModule) \ {Send} \subseteq {Negotiate, GetConfig}
  BY TwoEnds DEF Asks
<1>4. /\ status[Device].pending \in {"none", "linkcontrol", "status", "send"}
      /\ status[CommModule].pending \in {"none", "negotiate", "getconfig", "send"}
  BY <1>1, <1>2
<1> QED BY <1>1, <1>3, <1>4

LEMMA NegotiationIsAnswered ==
    ASSUME LinkInv, NEW e \in Ends, HandleNegotiated(e)
    PROVE  Consistent'
<1> USE DEF LinkInv, Consistent
<1>1. e = CommModule /\ status[CommModule].pending = "negotiate"
  BY PendingKinds, TwoEnds DEF HandleNegotiated
<1>2. /\ calls'[CommModule] = calls[CommModule] /\ ~Calling(CommModule)
      /\ rx'[CommModule] = NoMessage /\ Ignores(Device)
  BY <1>1, TwoEnds DEF HandleNegotiated, Handles, TypeOK, Ignores, Leaves
<1>3. ~status[CommModule].haveConfiguration
  BY <1>1 DEF CommModuleIsConsistent
<1>4. /\ status'[CommModule].delayed = status[CommModule].delayed
      /\ status'[CommModule].pending = "none"
      /\ ~status'[CommModule].haveConfiguration
      /\ status'[CommModule].state = "NEEDCONFIG"
  <2> DEFINE t == [Clear(status[CommModule]) EXCEPT !.negotiateComplete = TRUE,
                                                   !.state = "NEEDCONFIG"]
  <2>1. status[CommModule] \in Statuses
    BY TwoEnds DEF TypeOK
  <2>2. status'[CommModule] = t
    BY <1>1, <1>3, TwoEnds DEF HandleNegotiated, TypeOK
  <2>3. t.delayed = status[CommModule].delayed /\ t.pending = "none" /\ t.state = "NEEDCONFIG"
        /\ t.haveConfiguration = status[CommModule].haveConfiguration
    BY <2>1 DEF Clear, Statuses
  <2> QED BY <1>3, <2>2, <2>3
<1>5. Queue(CommModule, calls'[CommModule])
  BY <1>2, TwoEnds DEF Roles
<1>6. Negotiate \notin status[CommModule].delayed
  BY <1>1 DEF CommModuleIsConsistent
<1>7. ~WillNegotiate'
  BY <1>2 DEF WillNegotiate, Calling
<1>8. CommModuleIsConsistent'
  BY <1>4, <1>6, <1>7 DEF CommModuleIsConsistent
<1>9. ~HasConfiguration'
  BY <1>2, <1>4, KindsOfMessages DEF HasConfiguration, Configuration
<1> QED BY <1>2, <1>4, <1>5, <1>8, <1>9, CommModuleActs

LEMMA ConfigurationIsAnswered ==
    ASSUME LinkInv, NEW e \in Ends, HandleConfiguration(e)
    PROVE  Consistent'
<1> USE DEF LinkInv, Consistent
<1>1. e = CommModule /\ status[CommModule].pending = "getconfig"
  BY PendingKinds, TwoEnds DEF HandleConfiguration
<1>2. /\ calls'[CommModule] = calls[CommModule] /\ ~Calling(CommModule)
      /\ rx'[CommModule] = NoMessage /\ Ignores(Device)
      /\ running' = running /\ baud' = baud
      /\ rx[CommModule] \in Responses({"OK"})
  BY <1>1, TwoEnds DEF HandleConfiguration, Handles, TypeOK, Ignores, Leaves
<1>3. Queue(CommModule, calls'[CommModule]) /\ ~WillNegotiate' /\ ~Calls(CommModule, GetConfig)'
  BY <1>2, TwoEnds DEF Roles, WillNegotiate, Calls, Calling
<1>4. Negotiate \notin status[CommModule].delayed
  BY <1>1 DEF CommModuleIsConsistent
<1> DEFINE s == status[CommModule]
           t == [Clear(s) EXCEPT !.haveConfiguration = TRUE, !.state = "NORMAL"]
<1>5. s \in Statuses
  BY TwoEnds DEF TypeOK
<1>6. /\ Clear(s).delayed = s.delayed /\ Clear(s).pending = "none" /\ Clear(s).state = s.state
      /\ Clear(s).haveConfiguration = s.haveConfiguration
      /\ Clear(s).resetNeeded = s.resetNeeded
      /\ t.delayed = s.delayed /\ t.pending = "none" /\ t.state = "NORMAL"
      /\ t.haveConfiguration /\ t.resetNeeded = s.resetNeeded
  BY <1>5 DEF Clear, Statuses
<1>7. status'[CommModule] = IF rx[CommModule].to = "getconfig" THEN t ELSE Clear(s)
  BY <1>1, TwoEnds DEF HandleConfiguration, TypeOK
<1> HIDE DEF s, t
<1>8. status'[CommModule].delayed = s.delayed /\ status'[CommModule].pending = "none"
  BY <1>6, <1>7
<1>9. CommModuleIsConsistent'
  <2>1. s.state = "NORMAL" => s.haveConfiguration
    BY DEF CommModuleIsConsistent, s
  <2>2. status'[CommModule].state = "NORMAL" => status'[CommModule].haveConfiguration
    BY <1>6, <1>7, <2>1
  <2> QED BY <1>3, <1>4, <1>8, <2>2 DEF CommModuleIsConsistent, s
<1>10. ASSUME HasConfiguration'
       PROVE  HasConfiguration
  <2>1. NoMessage # Configuration
    BY KindsOfMessages DEF Configuration
  <2>2. ~s.resetNeeded /\ running[CommModule] # "resetting" /\ status'[CommModule].haveConfiguration
    BY <1>2, <1>6, <1>7, <1>10, <2>1 DEF HasConfiguration
  <2>3. CASE rx[CommModule].to = "getconfig"
    <3>1. rx[CommModule] = Configuration
      BY <1>2, <2>3 DEF Responses, Configuration, Response
    <3> QED BY <1>1, <2>2, <3>1 DEF HasConfiguration, s
  <2>4. CASE rx[CommModule].to # "getconfig"
    BY <1>6, <1>7, <2>2, <2>4 DEF HasConfiguration, s
  <2> QED BY <2>3, <2>4
<1> QED BY <1>2, <1>3, <1>8, <1>9, <1>10, CommModuleActs DEF s

\* The communication module asks, for the first time or again.
LEMMA CommModuleAsks ==
    ASSUME LinkInv, Ignores(Device), ~Calling(CommModule), rx[CommModule] = NoMessage,
           NEW m \in {Negotiate, GetConfig}, calls'[CommModule] = <<Call(m)>>,
           rx' = rx, running' = running, baud' = baud,
           status'[CommModule] \in {status[CommModule],
                                    [status[CommModule] EXCEPT !.state = "DISCONNECTED"]},
           m = Negotiate => Negotiate \in status[CommModule].delayed
                               /\ status[CommModule].pending = "none",
           m = GetConfig => Negotiate \notin status[CommModule].delayed
    PROVE  Consistent'
<1> USE DEF LinkInv, Consistent
<1> DEFINE s == status[CommModule]
           t == status'[CommModule]
<1>1. s \in Statuses
  BY TwoEnds DEF TypeOK
<1>2. /\ t.delayed = s.delayed /\ t.pending = s.pending
      /\ t.haveConfiguration = s.haveConfiguration /\ t.resetNeeded = s.resetNeeded
      /\ t.state \in {s.state, "DISCONNECTED"}
  BY <1>1 DEF Statuses
<1> HIDE DEF s, t
<1>3. m \in SaidBy(CommModule) /\ Negotiate # GetConfig /\ NoMessage # Configuration
  BY BothSay, TwoEnds, KindsOfMessages DEF Asks, Configuration
<1>4. /\ Queue(CommModule, calls'[CommModule])
      /\ Head(calls'[CommModule]).message = m /\ Tail(calls'[CommModule]) = <<>>
  BY <1>3, OneCallQueue, TwoEnds
<1>5. CommModuleIsConsistent'
  <2>1. WillNegotiate' => m = Negotiate
    BY <1>4 DEF WillNegotiate
  <2>2. Calls(CommModule, GetConfig)' => m = GetConfig
    BY <1>4 DEF Calls
  <2> QED BY <1>2, <1>3, <2>1, <2>2 DEF CommModuleIsConsistent, s, t
<1>6. HasConfiguration' => HasConfiguration
  BY <1>2, <1>3 DEF HasConfiguration, s, t
<1> QED BY <1>2, <1>4, <1>5, <1>6, CommModuleActs DEF s, t

LEMMA ConfigurationIsAsked ==
    ASSUME LinkInv, NEW e \in Ends, RunNeedConfig(e) \/ RunDisconnected(e)
    PROVE  Consistent'
<1> USE DEF LinkInv, Consistent
<1>1. e = CommModule
  BY TwoEnds DEF RunNeedConfig, RunDisconnected, DeviceIsConsistent
<1>2. /\ ~Calling(CommModule) /\ rx[CommModule] = NoMessage
      /\ calls'[CommModule] = <<Call(GetConfig)>>
      /\ rx' = rx /\ running' = running /\ baud' = baud
      /\ status' = status \/ status' = [status EXCEPT ![e].state = "DISCONNECTED"]
  BY <1>1, TwoEnds DEF RunNeedConfig, RunDisconnected, Polled, Idle, TypeOK
<1>3. Ignores(Device)
  BY <1>1, <1>2, TwoEnds DEF RunNeedConfig, RunDisconnected, TypeOK, Ignores, Leaves
<1>4. status'[CommModule] \in {status[CommModule],
                               [status[CommModule] EXCEPT !.state = "DISCONNECTED"]}
  BY <1>1, <1>2, TwoEnds DEF TypeOK
<1>5. Negotiate \notin status[CommModule].delayed
  BY <1>1 DEF RunNeedConfig, RunDisconnected, MustGetConfig, CommModuleIsConsistent
<1> QED BY <1>2, <1>3, <1>4, <1>5, KindsOfMessages, CommModuleAsks

LEMMA DelayedIsAsked ==
    ASSUME LinkInv, NEW e \in Ends, HandleDelayedRequests(e)
    PROVE  Consistent'
<1> USE DEF LinkInv, Consistent
<1>1. /\ ~Calling(e) /\ rx[e] = NoMessage
      /\ status' = status /\ rx' = rx /\ running' = running /\ baud' = baud
  BY DEF HandleDelayedRequests, Polled, Idle
<1>2. PICK m \in DueRequests(status[e]) : calls' = [calls EXCEPT ![e] = <<Call(m)>>]
  BY DEF HandleDelayedRequests
<1>3. /\ m \in status[e].delayed /\ status[e].pending = "none"
      /\ \A d \in status[e].delayed : Rank[m.kind] <= Rank[d.kind]
  BY <1>2 DEF DueRequests
<1>4. Ignores(Peer(e)) /\ calls'[e] = <<Call(m)>>
  BY <1>1, <1>2, TwoEnds DEF TypeOK, Ignores, Leaves
<1>5. CASE e = Device
  <2>1. m.kind \in {"linkcontrol", "status"} /\ m \in Asks(Device)
    BY <1>3, <1>5, TwoEnds, PendingKinds, KindsOfMessages DEF Asks
  <2>2. m \in Plain(e)
    BY <1>5, <2>1, BothSay, KindsOfMessages DEF Plain, Negotiated
  <2>3. Calm(e)
    BY <1>1, <1>4, <2>2 DEF Calm, Like
  <2> QED BY <1>4, <2>3, CalmIsConsistent
<1>6. CASE e = CommModule
  <2>1. m \in {Negotiate, GetConfig}
    BY <1>3, <1>6, PendingKinds
  <2>2. m = GetConfig => Negotiate \notin status[CommModule].delayed
    BY <1>3, <1>6, KindsOfMessages DEF Rank
  <2>3. Ignores(Device)
    BY <1>4, <1>6, TwoEnds
  <2> QED BY <1>1, <1>3, <1>4, <1>6, <2>1, <2>2, <2>3, CommModuleAsks
<1> QED BY <1>5, <1>6, TwoEnds

LEMMA TrafficStops ==
    ASSUME LinkInv, NEW e \in Ends, TrafficTimeout(e)
    PROVE  Consistent'
<1> USE DEF LinkInv, Consistent
<1>1. /\ status'[e].delayed = status[e].delayed
      /\ status'[e].pending = status[e].pending
      /\ status'[e].haveConfiguration = status[e].haveConfiguration
      /\ status'[e].state = "INIT" /\ status'[e].resetNeeded
  BY DEF TrafficTimeout, ResetLink, TypeOK, Statuses
<1>2. calls' = calls /\ rx' = rx /\ ~Calling(e)
  BY DEF TrafficTimeout, Polled, Idle
<1>3. Ignores(Peer(e)) /\ Peer(e) \in Ends
  BY TwoEnds DEF TrafficTimeout, Ignores, Leaves, TypeOK
<1>4. CASE e = Device
  <2>1. Roles'
    <3>1. Leaves(Peer(Device)) /\ rx'[Peer(Device)] = rx[Peer(Device)]
      BY <1>3, <1>4 DEF Ignores
    <3>2. /\ Queue(Device, calls'[Device])
          /\ status'[Device].delayed \subseteq Asks(Device) \ {Send}
          /\ status'[Device].pending \in {"none"} \cup {m.kind : m \in Asks(Device)}
      BY <1>1, <1>2, <1>4 DEF Roles
    <3> QED BY <1>2, <1>4, <3>1, <3>2, RolesAreKept
  <2>2. DeviceIsConsistent' /\ DeviceKnows'
    BY <1>1, <1>4 DEF DeviceIsConsistent, DeviceKnows
  <2> QED BY <1>3, <1>4, <2>1, <2>2, TwoEnds, CommModuleIsLeft DEF Ignores
<1>5. CASE e = CommModule
  <2>1. Queue(CommModule, calls'[CommModule])
    BY <1>2, TwoEnds DEF Roles
  <2>2. ~WillNegotiate' /\ ~Calls(CommModule, GetConfig)'
    BY <1>2, <1>5 DEF WillNegotiate, Calls, Calling
  <2>3. CommModuleIsConsistent' /\ ~HasConfiguration'
    BY <1>1, <1>5, <2>2 DEF CommModuleIsConsistent, HasConfiguration
  <2> QED BY <1>1, <1>2, <1>3, <1>5, <2>1, <2>3, TwoEnds, CommModuleActs
<1> QED BY <1>4, <1>5, TwoEnds

LEMMA PowerIsUp ==
    ASSUME LinkInv, BestBaud # DefaultBaud, NotePowerUp
    PROVE  Consistent'
<1> USE DEF LinkInv, Consistent
<1>1. status[Device] \in Statuses /\ Device \in Ends /\ CommModule \in Ends /\ Device # CommModule
  BY TwoEnds DEF TypeOK
<1> DEFINE t == [status[Device] EXCEPT !.commModulePresent = FALSE,
                                       !.negotiateComplete = FALSE,
                                       !.pending = "none",
                                       !.delayed = {},
                                       !.state = "INIT",
                                       !.inhibited = TRUE]
<1>2. /\ t.delayed = {} /\ t.pending = "none" /\ t.state = "INIT" /\ ~t.negotiateComplete
      /\ t.haveConfiguration = status[Device].haveConfiguration
  BY <1>1 DEF Statuses
<1>3. status'[Device] = t /\ status'[CommModule] = status[CommModule]
  BY <1>1 DEF NotePowerUp, TypeOK
<1>4. /\ baud'[Device] = DefaultBaud /\ baud'[CommModule] = baud[CommModule]
      /\ running' = running /\ calls' = calls /\ rx' = rx
  BY <1>1 DEF NotePowerUp, TypeOK
<1>5. Ignores(CommModule)
  BY <1>3, <1>4 DEF Ignores, Leaves
<1>6. Roles'
  <2>1. Leaves(Peer(Device)) /\ rx'[Peer(Device)] = rx[Peer(Device)]
    BY <1>5, TwoEnds DEF Ignores
  <2>2. Queue(Device, calls'[Device])
    BY <1>1, <1>4 DEF Roles
  <2>3. /\ status'[Device].delayed \subseteq Asks(Device) \ {Send}
        /\ status'[Device].pending \in {"none"} \cup {m.kind : m \in Asks(Device)}
    BY <1>2, <1>3
  <2> QED BY <1>1, <1>4, <2>1, <2>2, <2>3, RolesAreKept
<1>7. DeviceIsConsistent' /\ DeviceKnows'
  BY <1>2, <1>3, <1>4 DEF DeviceIsConsistent, DeviceKnows
<1> QED BY <1>5, <1>6, <1>7, CommModuleIsLeft DEF Ignores

LEMMA CommModuleStarts ==
    ASSUME LinkInv, Reboot
    PROVE  Consistent'
<1> USE DEF LinkInv, Consistent
<1>1. Device \in Ends /\ CommModule \in Ends /\ Device # CommModule
  BY TwoEnds
<1>2. /\ status'[CommModule] = InitialStatus(CommModule)
      /\ calls'[CommModule] = <<>> /\ rx'[CommModule] = NoMessage
  BY <1>1 DEF Reboot, TypeOK
<1>3. Ignores(Device)
  BY <1>1 DEF Reboot, TypeOK, Ignores, Leaves
<1>4. /\ status'[CommModule].delayed = {} /\ status'[CommModule].pending = "none"
      /\ status'[CommModule].state = "INIT" /\ ~status'[CommModule].haveConfiguration
  <2>1. /\ InitialStatus(CommModule).delayed = {} /\ InitialStatus(CommModule).pending = "none"
        /\ InitialStatus(CommModule).state = "INIT"
    BY DEF InitialStatus
  <2>2. InitialStatus(CommModule).haveConfiguration = (CommModule = Device)
    BY DEF InitialStatus
  <2> QED BY <1>1, <1>2, <2>1, <2>2
<1>5. Queue(CommModule, calls'[CommModule]) /\ ~WillNegotiate' /\ NoMessage # Configuration
  BY <1>2, KindsOfMessages DEF Queue, WillNegotiate, Calling, Configuration
<1>6. CommModuleIsConsistent' /\ ~HasConfiguration'
  BY <1>2, <1>4, <1>5 DEF CommModuleIsConsistent, HasConfiguration
<1> QED BY <1>2, <1>3, <1>4, <1>5, <1>6, CommModuleActs

-----------------------------------------------------------------------------
\* The end of a call.  First the values: what it does to a status.

\* What both ends of a call keep, unless it is one of the messages below.
Kept(t, s) ==
    /\ t.state = s.state
    /\ t.resetNeeded = s.resetNeeded
    /\ t.negotiateComplete = s.negotiateComplete
    /\ t.haveConfiguration = s.haveConfiguration
    /\ t.commModulePresent = s.commModulePresent

LEMMA RequestIsNoted ==
    ASSUME NEW s \in Statuses, NEW m
    PROVE  /\ Kept(NoteRequest(s, m), s)
           /\ NoteRequest(s, m).pending = m.kind
           /\ NoteRequest(s, m).delayed = {d \in s.delayed : d.kind # m.kind}
           /\ LET u == [NoteRequest(s, m) EXCEPT !.inhibited = FALSE]
              IN  /\ Kept(u, s)
                  /\ u.pending = m.kind
                  /\ u.delayed = {d \in s.delayed : d.kind # m.kind}
BY DEF NoteRequest, Statuses, Kept

LEMMA CallsOfSuccess ==
    ASSUME NEW s \in Statuses, NEW m \in Messages, m # Configuration, m # Negotiated
    PROVE  LET t == SucceedsFor(s, m)
           IN  /\ Kept(t, s)
               /\ IF m = Send \/ IsRequest(m)
                  THEN t.pending = m.kind /\ t.delayed = {d \in s.delayed : d.kind # m.kind}
                  ELSE t = s
<1>1. CASE m = Send
  BY <1>1, RequestIsNoted DEF SucceedsFor, Configuration, Negotiated
<1>2. CASE m # Send /\ IsRequest(m)
  BY <1>2, RequestIsNoted DEF SucceedsFor, Configuration, Negotiated
<1>3. CASE m # Send /\ ~IsRequest(m)
  BY <1>3 DEF SucceedsFor, Kept, Configuration, Negotiated
<1> QED BY <1>1, <1>2, <1>3

LEMMA AnswersOfSuccess ==
    ASSUME NEW s
    PROVE  /\ SucceedsFor(s, Configuration) = [s EXCEPT !.commModulePresent = TRUE]
           /\ SucceedsFor(s, Negotiated) = [s EXCEPT !.negotiateComplete = TRUE, !.state = "NORMAL"]
<1>1. \A m \in {Configuration, Negotiated} : m # Send /\ ~IsRequest(m)
  BY KindsOfMessages DEF Configuration, Negotiated, IsRequest, Kinds
<1>2. Configuration # Negotiated
  BY KindsOfMessages DEF Configuration, Negotiated
<1>3. Configuration = Response("OK", "getconfig") /\ Negotiated = Response("OK", "negotiate")
  BY DEF Configuration, Negotiated
<1> QED BY <1>1, <1>2, <1>3 DEF SucceedsFor

LEMMA DeviceSucceeds ==
    ASSUME LinkInv, CallSucceeds(Device)
    PROVE  Consistent'
<1> USE DEF LinkInv, Consistent
<1> DEFINE m == Head(calls[Device]).message
           s == status[Device]
           t == status'[Device]
<1>1. /\ Device \in Ends /\ CommModule \in Ends /\ Device # CommModule
      /\ Peer(Device) = CommModule
  BY TwoEnds
<1>2. Calling(Device) /\ ~Head(calls[Device]).received /\ baud[Device] = baud[CommModule]
  BY <1>1 DEF CallSucceeds
<1>3. s \in Statuses
  BY <1>1 DEF TypeOK
<1>4. m \in SaidBy(Device) /\ Tail(calls[Device]) = <<>>
  BY <1>1, <1>2 DEF Roles, Queue, Calling
<1>5. /\ t = SucceedsFor(s, m)
      /\ status'[CommModule] = status[CommModule]
  <2>1. m # Response("OK", "reset") /\ m # Response("OK", "reload")
    BY <1>4, DeviceSays
  <2>2. status' = [status EXCEPT ![Device] = AfterAnswer(SucceedsFor(s, m), m)]
    BY DEF CallSucceeds, AfterSuccess
  <2>3. AfterAnswer(SucceedsFor(s, m), m) = SucceedsFor(s, m)
    BY <2>1 DEF AfterAnswer
  <2> HIDE DEF m, s
  <2> QED BY <1>1, <2>2, <2>3 DEF TypeOK, t
<1>6. /\ calls'[Device] = <<>> /\ calls'[CommModule] = calls[CommModule]
      /\ rx'[CommModule] = m /\ rx'[Device] = rx[Device]
      /\ running' = running
      /\ baud'[CommModule] = baud[CommModule]
      /\ baud'[Device] = IF m = Negotiated THEN BestBaud ELSE baud[Device]
  BY <1>1, <1>4 DEF CallSucceeds, AfterSuccess, TypeOK, Negotiated
<1> HIDE DEF m, s, t
<1>7. Leaves(CommModule)
  BY <1>5, <1>6 DEF Leaves
<1>8. /\ m \in Messages /\ m \notin {Negotiate, GetConfig}
      /\ Configuration # Negotiated /\ m.kind \in {"linkcontrol", "status", "send", "response"}
  BY <1>4, DeviceSays, KindsOfMessages DEF Configuration, Negotiated
<1>9. CASE m = Configuration
  <2>1. t = [s EXCEPT !.commModulePresent = TRUE]
    BY <1>5, <1>9, AnswersOfSuccess
  <2>2. /\ t.delayed = s.delayed /\ t.pending = s.pending /\ t.state = s.state
        /\ t.haveConfiguration = s.haveConfiguration /\ t.commModulePresent
        /\ t.negotiateComplete = s.negotiateComplete
    BY <1>3, <2>1 DEF Statuses
  <2>3. DeviceIsConsistent' /\ DeviceKnows'
    BY <2>2 DEF DeviceIsConsistent, DeviceKnows, s, t
  <2>4. /\ Queue(Device, calls'[Device])
        /\ t.delayed \subseteq Asks(Device) \ {Send}
        /\ t.pending \in {"none"} \cup {x.kind : x \in Asks(Device)}
    BY <1>1, <1>6, <2>2 DEF Roles, Queue, s
  <2>5. Roles'
    BY <1>1, <1>4, <1>6, <1>7, <2>4, RolesAreKept DEF t
  <2> QED BY <1>7, <2>3, <2>5, CommModuleIsLeft
<1>10. CASE m = Negotiated
  <2>1. t = [s EXCEPT !.negotiateComplete = TRUE, !.state = "NORMAL"]
    BY <1>5, <1>10, AnswersOfSuccess
  <2>2. /\ t.delayed = s.delayed /\ t.pending = s.pending /\ t.state = "NORMAL"
        /\ t.haveConfiguration = s.haveConfiguration /\ t.commModulePresent = s.commModulePresent
        /\ t.resetNeeded = s.resetNeeded
    BY <1>3, <2>1 DEF Statuses
  <2>3. DeviceIsConsistent'
    BY <2>2 DEF DeviceIsConsistent, s, t
  <2>4. /\ Queue(Device, calls'[Device])
        /\ t.delayed \subseteq Asks(Device) \ {Send}
        /\ t.pending \in {"none"} \cup {x.kind : x \in Asks(Device)}
    BY <1>1, <1>6, <2>2 DEF Roles, Queue, s
  <2>5. Roles'
    BY <1>1, <1>4, <1>6, <1>7, <2>4, RolesAreKept DEF t
  <2>6. HasConfiguration' => HasConfiguration
    BY <1>6, <1>7, <1>8, <1>10 DEF HasConfiguration, Leaves, Calls, Calling
  <2>7. DeviceKnows => DeviceKnows'
    <3>1. Calls(Device, Negotiated)
      BY <1>2, <1>10 DEF Calls, m
    <3>2. DeviceKnows => \/ s.commModulePresent \/ s.resetNeeded \/ running[Device] = "resetting"
                         \/ BestBaud # DefaultBaud /\ baud[Device] = DefaultBaud
      BY <1>2, <3>1 DEF DeviceKnows, s
    <3> QED BY <1>2, <1>6, <1>10, <2>2, <3>2 DEF DeviceKnows, t
  <2> QED BY <1>7, <2>3, <2>5, <2>6, <2>7, CommModuleIsLeft
<1>11. CASE m # Configuration /\ m # Negotiated
  <2>1. /\ Kept(t, s)
        /\ IF m = Send \/ IsRequest(m)
           THEN t.pending = m.kind /\ t.delayed = {d \in s.delayed : d.kind # m.kind}
           ELSE t = s
    BY <1>3, <1>5, <1>8, <1>11, CallsOfSuccess
  <2>2. m = Send \/ IsRequest(m) => m \in Asks(Device)
    <3>1. \A code, to : m = Response(code, to) => m # Send /\ ~IsRequest(m)
      BY KindsOfMessages DEF IsRequest, Kinds
    <3> QED BY <1>4, <3>1 DEF SaidBy
  <2>3. /\ Queue(Device, calls'[Device])
        /\ t.delayed \subseteq Asks(Device) \ {Send}
        /\ t.pending \in {"none"} \cup {x.kind : x \in Asks(Device)}
    <3>1. /\ s.delayed \subseteq Asks(Device) \ {Send}
          /\ s.pending \in {"none"} \cup {x.kind : x \in Asks(Device)}
      BY <1>1 DEF Roles, s
    <3>2. Queue(Device, calls'[Device])
      BY <1>6 DEF Queue
    <3> QED BY <2>1, <2>2, <3>1, <3>2
  <2>4. Roles'
    BY <1>1, <1>4, <1>6, <1>7, <2>3, RolesAreKept DEF t
  <2>5. DeviceIsConsistent'
    BY <2>1 DEF DeviceIsConsistent, Kept, s, t
  <2>6. HasConfiguration' => HasConfiguration
    BY <1>6, <1>7, <1>11 DEF HasConfiguration, Leaves, Calls, Calling
  <2>7. DeviceKnows => DeviceKnows'
    <3>1. ~Calls(Device, Negotiated)'
      BY <1>6 DEF Calls, Calling
    <3> QED BY <1>2, <1>6, <1>11, <2>1, <3>1 DEF DeviceKnows, Kept, s, t
  <2> QED BY <1>7, <2>4, <2>5, <2>6, <2>7, CommModuleIsLeft
<1> QED BY <1>9, <1>10, <1>11

LEMMA LinkControlsAnswered ==
    ASSUME NEW s \in Statuses, NEW m
    PROVE  LET t == AfterAnswer(s, m)
           IN  /\ t.delayed = s.delayed /\ t.pending = s.pending
               /\ \/ t = s
                  \/ m = Response("OK", "reset") /\ t = [s EXCEPT !.resetNeeded = TRUE]
                  \/ /\ m = Response("OK", "reload")
                     /\ t = [s EXCEPT !.haveConfiguration = FALSE,
                                      !.state = IF @ = "NORMAL" THEN "NEEDCONFIG" ELSE @]
<1>1. /\ [s EXCEPT !.resetNeeded = TRUE].delayed = s.delayed
      /\ [s EXCEPT !.resetNeeded = TRUE].pending = s.pending
      /\ \A x : [s EXCEPT !.haveConfiguration = FALSE, !.state = x].delayed = s.delayed
      /\ \A x : [s EXCEPT !.haveConfiguration = FALSE, !.state = x].pending = s.pending
  BY DEF Statuses
<1>2. \/ AfterAnswer(s, m) = s
      \/ m = Response("OK", "reset") /\ AfterAnswer(s, m) = [s EXCEPT !.resetNeeded = TRUE]
      \/ /\ m = Response("OK", "reload")
         /\ AfterAnswer(s, m) = [s EXCEPT !.haveConfiguration = FALSE,
                                    !.state = IF s.state = "NORMAL" THEN "NEEDCONFIG" ELSE s.state]
  BY KindsOfMessages DEF AfterAnswer
<1> QED BY <1>1, <1>2

\* The messages of the communication module: an answer, or one that it asks.
LEMMA CommModuleAnswersOrAsks ==
    ASSUME NEW m \in SaidBy(CommModule)
    PROVE  \/ m \in {Negotiate, GetConfig, Send}
           \/ m.kind = "response" /\ m # Configuration /\ m # Negotiated
<1>1. Asks(CommModule) = {Negotiate, GetConfig, Send}
  BY TwoEnds DEF Asks
<1> QED BY <1>1, CommModuleSays, KindsOfMessages DEF SaidBy, Configuration, Negotiated

LEMMA CommModuleSucceeds ==
    ASSUME LinkInv, CallSucceeds(CommModule)
    PROVE  Consistent'
<1> USE DEF LinkInv, Consistent
<1> DEFINE q == calls[CommModule]
           m == Head(q).message
           s == status[CommModule]
           u == SucceedsFor(s, m)
           t == status'[CommModule]
<1>1. /\ Device \in Ends /\ CommModule \in Ends /\ Device # CommModule
      /\ Peer(CommModule) = Device
  BY TwoEnds
<1>2. Calling(CommModule) /\ ~Head(q).received
  BY DEF CallSucceeds
<1>3. s \in Statuses
  BY <1>1 DEF TypeOK
<1>4. /\ m \in SaidBy(CommModule)
      /\ Tail(q) = <<>> \/ (m = Send /\ Tail(q) = <<Call(Negotiate)>>)
  BY <1>1, <1>2 DEF Roles, Queue, Calling
<1>5. t = AfterAnswer(u, m) /\ status'[Device] = status[Device]
  BY <1>1 DEF CallSucceeds, AfterSuccess, TypeOK
<1>6. m # Negotiated
  BY <1>4, CommModuleSays DEF Negotiated
<1>7. /\ calls'[CommModule] = Tail(q) /\ calls'[Device] = calls[Device]
      /\ rx'[Device] = m /\ rx'[CommModule] = rx[CommModule]
      /\ running' = running /\ baud' = baud
  BY <1>1, <1>6 DEF CallSucceeds, AfterSuccess, TypeOK, Negotiated
<1>8. /\ WillNegotiate <=> (m = Negotiate \/ Tail(q) # <<>>)
      /\ \A x : Calls(CommModule, x) <=> m = x
  BY <1>2 DEF WillNegotiate, Calls
<1> HIDE DEF q, m, s, t, u
<1>9. Leaves(Device)
  BY <1>5, <1>7 DEF Leaves
<1>10. /\ m \in Messages /\ m # Configuration
       /\ Negotiate # GetConfig /\ Send # Negotiate /\ Send # GetConfig
       /\ Negotiate.kind = "negotiate" /\ GetConfig.kind = "getconfig" /\ Send.kind = "send"
  BY <1>4, CommModuleSays, KindsOfMessages DEF Configuration
<1>11. /\ Kept(u, s)
       /\ IF m = Send \/ IsRequest(m)
          THEN u.pending = m.kind /\ u.delayed = {d \in s.delayed : d.kind # m.kind}
          ELSE u = s
  BY <1>3, <1>6, <1>10, CallsOfSuccess DEF u
<1>12. u \in Statuses
  BY <1>3, <1>10, SucceedsForOK DEF u
<1>13. t.delayed = u.delayed /\ t.pending = u.pending
  BY <1>5, <1>12, LinkControlsAnswered
<1>14. IsRequest(Negotiate) /\ IsRequest(GetConfig)
  BY <1>10 DEF IsRequest, Kinds
<1>15. /\ Call(Negotiate).message = Negotiate
       /\ <<Call(Negotiate)>> # <<>>
       /\ Head(<<Call(Negotiate)>>) = Call(Negotiate) /\ Tail(<<Call(Negotiate)>>) = <<>>
  BY DEF Call
<1>16. Roles'
  <2>1. Queue(CommModule, calls'[CommModule])
    <3>1. Negotiate \in SaidBy(CommModule)
      BY <1>1, BothSay DEF Asks
    <3> QED BY <1>4, <1>7, <1>15, <3>1 DEF Queue
  <2>2. /\ s.delayed \subseteq Asks(CommModule) \ {Send}
        /\ s.pending \in {"none"} \cup {x.kind : x \in Asks(CommModule)}
    BY <1>1 DEF Roles, s
  <2>3. m = Send \/ IsRequest(m) => m \in Asks(CommModule)
    <3>1. m.kind = "response" => m # Send /\ ~IsRequest(m)
      BY <1>10 DEF IsRequest, Kinds
    <3> QED BY <1>1, <1>4, <3>1, CommModuleAnswersOrAsks DEF Asks
  <2>4. /\ t.delayed \subseteq Asks(CommModule) \ {Send}
        /\ t.pending \in {"none"} \cup {x.kind : x \in Asks(CommModule)}
    BY <1>11, <1>13, <2>2, <2>3
  <2> QED BY <1>1, <1>4, <1>7, <1>9, <2>1, <2>4, RolesAreKept DEF t
<1>17. CASE m \in {Negotiate, GetConfig, Send}
  <2>1. t = u
    <3>1. \A code, to : m # Response(code, to)
      BY <1>10, <1>17, KindsOfMessages
    <3> QED BY <1>5, <3>1 DEF AfterAnswer
  <2>2. u.pending = m.kind /\ u.delayed = {d \in s.delayed : d.kind # m.kind}
    BY <1>11, <1>14, <1>17
  <2>3. /\ WillNegotiate' <=> Tail(q) # <<>>
        /\ ~Calls(CommModule, GetConfig)'
    BY <1>4, <1>7, <1>10, <1>15 DEF WillNegotiate, Calls, Calling
  <2>4. CommModuleIsConsistent'
    BY <1>4, <1>8, <1>10, <1>11, <1>17, <2>1, <2>2, <2>3 DEF CommModuleIsConsistent, Kept, s, t
  <2>5. HasConfiguration' => HasConfiguration /\ m # Negotiate
    BY <1>7, <1>8, <1>10, <1>11, <1>17, <2>1, <2>2, <2>3
       DEF HasConfiguration, CommModuleIsConsistent, Kept, s, t
  <2>6. HasConfiguration' => DeviceKnows'
    BY <1>7, <1>9, <2>5, KnowledgeIsLeft
  <2> QED BY <1>9, <1>16, <2>4, <2>6, DeviceIsLeft
<1>18. CASE m.kind = "response"
  <2>1. u = s /\ m \notin {Negotiate, GetConfig, Send} /\ Tail(q) = <<>>
    BY <1>4, <1>10, <1>11, <1>18 DEF IsRequest, Kinds
  <2>2. /\ t.delayed = s.delayed /\ t.pending = s.pending
        /\ \/ t = s
           \/ t = [s EXCEPT !.resetNeeded = TRUE]
           \/ t = [s EXCEPT !.haveConfiguration = FALSE,
                            !.state = IF @ = "NORMAL" THEN "NEEDCONFIG" ELSE @]
    BY <1>3, <1>5, <2>1, LinkControlsAnswered
  <2>3. /\ t.haveConfiguration => s.haveConfiguration
        /\ s.resetNeeded => t.resetNeeded
        /\ \/ t.state = s.state /\ (t.haveConfiguration = s.haveConfiguration)
           \/ ~t.haveConfiguration /\ s.state # "NORMAL" /\ t.state = s.state
           \/ ~t.haveConfiguration /\ s.state = "NORMAL" /\ t.state = "NEEDCONFIG"
    BY <1>3, <2>2 DEF Statuses
  <2>4. ~WillNegotiate' /\ ~Calls(CommModule, GetConfig)'
    BY <1>7, <2>1 DEF WillNegotiate, Calls, Calling
  <2>5. CommModuleIsConsistent'
    BY <2>2, <2>3, <2>4 DEF CommModuleIsConsistent, s, t
  <2>6. HasConfiguration' => HasConfiguration
    BY <1>7, <2>2, <2>3, <2>4 DEF HasConfiguration, s, t
  <2>7. HasConfiguration' => DeviceKnows'
    BY <1>7, <1>9, <2>1, <2>6, KnowledgeIsLeft
  <2> QED BY <1>9, <1>16, <2>5, <2>7, DeviceIsLeft
<1> QED BY <1>4, <1>17, <1>18, CommModuleAnswersOrAsks

LEMMA ReceivedCall ==
    ASSUME NEW q \in Seq(CallRecords), q # <<>>
    PROVE  LET r == [q EXCEPT ![1].received = TRUE]
           IN  /\ r # <<>> /\ Tail(r) = Tail(q)
               /\ Head(r).message = Head(q).message /\ Head(r).received
<1> DEFINE r == [q EXCEPT ![1].received = TRUE]
<1>1. Len(q) \in Nat /\ Len(q) > 0 /\ q[1] \in CallRecords /\ Head(q) = q[1]
  OBVIOUS
<1> DEFINE p == [q[1] EXCEPT !.received = TRUE]
<1>2. p \in CallRecords /\ p.message = q[1].message /\ p.received
  BY <1>1 DEF CallRecords
<1>3. r = [q EXCEPT ![1] = p]
  OBVIOUS
<1> HIDE DEF p, r
<1>4. /\ r \in Seq(CallRecords) /\ Len(r) = Len(q)
      /\ r[1] = p /\ \A i \in 2..Len(q) : r[i] = q[i]
  <2>1. r \in Seq(CallRecords)
    <3>1. p \in CallRecords
      BY <1>2
    <3>2. [q EXCEPT ![1] = p] \in Seq(CallRecords)
      BY <3>1
    <3> QED BY <1>3, <3>2
  <2>2. DOMAIN q = 1..Len(q) /\ DOMAIN r = DOMAIN q
    BY <1>1, <1>3
  <2>3. Len(r) = Len(q)
    BY <1>1, <2>1, <2>2
  <2>4. r[1] = p
    BY <1>1, <1>3, <2>2
  <2>5. ASSUME NEW i \in 2..Len(q)
        PROVE  r[i] = q[i]
    BY <1>1, <1>3, <2>2
  <2> QED BY <2>1, <2>3, <2>4, <2>5
<1>5. r # <<>> /\ Head(r) = r[1]
  BY <1>1, <1>4
<1>6. Tail(r) = Tail(q)
  <2>1. /\ Tail(r) \in Seq(CallRecords) /\ Len(Tail(r)) = Len(q) - 1
        /\ Tail(q) \in Seq(CallRecords) /\ Len(Tail(q)) = Len(q) - 1
        /\ \A i \in 1..(Len(q) - 1) : Tail(r)[i] = r[i + 1] /\ Tail(q)[i] = q[i + 1]
    BY <1>1, <1>4, <1>5
  <2>2. \A i \in 1..(Len(q) - 1) : Tail(r)[i] = Tail(q)[i]
    BY <1>1, <1>4, <2>1
  <2> QED BY <2>1, <2>2
<1> QED BY <1>1, <1>2, <1>4, <1>5, <1>6 DEF r

LEMMA NotAcknowledged ==
    ASSUME LinkInv, NEW e \in Ends, CallIsNotAcknowledged(e)
    PROVE  Consistent'
<1> USE DEF LinkInv, Consistent
<1> DEFINE q == calls[e]
           m == Head(q).message
           r == calls'[e]
<1>1. /\ Device \in Ends /\ CommModule \in Ends /\ Device # CommModule
      /\ Peer(e) \in Ends /\ Peer(e) # e
  BY TwoEnds
<1>2. Calling(e) /\ ~Head(q).received
  BY DEF CallIsNotAcknowledged
<1>3. m \in SaidBy(e)
  BY <1>1, <1>2 DEF Roles, Queue, Calling
<1>4. /\ r = [q EXCEPT ![1].received = TRUE] /\ calls'[Peer(e)] = calls[Peer(e)]
      /\ rx'[Peer(e)] = m /\ rx'[e] = rx[e]
      /\ status' = status /\ running' = running /\ baud' = baud
  BY <1>1 DEF CallIsNotAcknowledged, TypeOK
<1>5. q \in Seq(CallRecords) /\ q # <<>>
  BY <1>2 DEF TypeOK, Calling, CallRecords
<1>6. /\ r # <<>> /\ Tail(r) = Tail(q)
      /\ Head(r).message = m /\ Head(r).received
  BY <1>4, <1>5, ReceivedCall
<1>7. /\ \A x : Calls(e, x) <=> m = x
      /\ \A x : Calls(e, x)' <=> m = x
  BY <1>5, <1>6 DEF Calls, Calling
<1> HIDE DEF q, r, m
<1>8. Leaves(Peer(e))
  BY <1>4 DEF Leaves
<1>9. Roles'
  <2>1. Queue(e, q)
    BY DEF Roles, q
  <2>2. Queue(e, r)
    BY <1>5, <1>6, <2>1 DEF Queue, m
  <2>3. /\ status[e].delayed \subseteq Asks(e) \ {Send}
        /\ status[e].pending \in {"none"} \cup {x.kind : x \in Asks(e)}
    BY DEF Roles
  <2> QED BY <1>3, <1>4, <1>8, <2>2, <2>3, RolesAreKept DEF r
<1>10. CASE e = Device
  <2>1. Leaves(CommModule) /\ rx'[CommModule] = m
    BY <1>4, <1>8, <1>10, TwoEnds
  <2>2. DeviceIsConsistent'
    BY <1>4 DEF DeviceIsConsistent
  <2>3. HasConfiguration' => HasConfiguration \/ m = Configuration
    BY <1>4, <2>1 DEF HasConfiguration, Leaves, Calls, Calling
  <2>4. m = Configuration => DeviceKnows'
    BY <1>6, <1>7, <1>10 DEF DeviceKnows, r
  <2>5. ASSUME DeviceKnows
        PROVE  DeviceKnows'
    BY <1>2, <1>4, <1>7, <1>10, <2>5, TwoEnds DEF DeviceKnows, q
  <2> QED BY <1>9, <2>1, <2>2, <2>3, <2>4, <2>5, CommModuleIsLeft
<1>11. CASE e = CommModule
  <2>1. Leaves(Device) /\ rx'[Device] = m
    BY <1>4, <1>8, <1>11, TwoEnds
  <2>2. WillNegotiate' <=> WillNegotiate
    BY <1>5, <1>6, <1>11 DEF WillNegotiate, Calling, q, r, m
  <2>3. \A x : Calls(CommModule, x)' <=> Calls(CommModule, x)
    BY <1>7, <1>11
  <2>4. CommModuleIsConsistent'
    BY <1>4, <2>2, <2>3 DEF CommModuleIsConsistent
  <2>5. HasConfiguration' => HasConfiguration
    BY <1>4, <1>11, <2>3 DEF HasConfiguration
  <2>6. HasConfiguration => m # Negotiate
    <3>1. m = Negotiate => WillNegotiate /\ ~Calls(CommModule, GetConfig)
      BY <1>5, <1>7, <1>11, KindsOfMessages DEF WillNegotiate, Calling, q, m
    <3> QED BY <3>1 DEF HasConfiguration, CommModuleIsConsistent
  <2>7. HasConfiguration' => DeviceKnows'
    BY <1>4, <2>1, <2>5, <2>6, KnowledgeIsLeft
  <2> QED BY <1>9, <2>1, <2>4, <2>7, DeviceIsLeft
<1> QED BY <1>10, <1>11, TwoEnds

LEMMA StatusOfFailure ==
    ASSUME NEW s \in Statuses, NEW m \in Messages
    PROVE  LET t == FailsFor(s, m)
           IN  /\ t.pending = s.pending /\ t.haveConfiguration = s.haveConfiguration
               /\ t.commModulePresent = s.commModulePresent
               /\ t.negotiateComplete = s.negotiateComplete
               /\ IF IsOneTry(m)
                  THEN /\ t.state = s.state /\ t.resetNeeded = s.resetNeeded
                       /\ t.delayed \subseteq s.delayed \cup (IF IsRequest(m) THEN {m} ELSE {})
                  ELSE t.state = "INIT" /\ t.resetNeeded /\ t.delayed = s.delayed
<1>1. CASE IsRequest(m)
  <2>1. FailsFor(s, m) = Delayed(s, m) /\ IsOneTry(m)
    BY <1>1 DEF FailsFor, IsRequest, IsOneTry
  <2> QED BY <1>1, <2>1 DEF Delayed, Statuses
<1>2. CASE ~IsRequest(m) /\ IsOneTry(m)
  <2>1. FailsFor(s, m) = s
    BY <1>2 DEF FailsFor
  <2> QED BY <1>2, <2>1
<1>3. CASE ~IsRequest(m) /\ ~IsOneTry(m)
  <2>1. FailsFor(s, m) = ResetLink(s)
    BY <1>3 DEF FailsFor
  <2> QED BY <1>3, <2>1 DEF ResetLink, Statuses
<1> QED BY <1>1, <1>2, <1>3

\* What is called after a failure: a message is tried again.
LEMMA CallsOfFailure ==
    ASSUME TypeOK, NEW e \in Ends, Calling(e), Queue(e, calls[e]),
           AfterFailure(e, Head(calls[e]).message)
    PROVE  LET q == calls[e]
               r == calls'[e]
           IN  /\ Queue(e, r)
               /\ \/ r = Tail(q)
                  \/ Head(q).message = Send /\ r # <<>> /\ Head(r) = Call(Send) /\ Tail(r) = Tail(q)
               /\ calls'[Peer(e)] = calls[Peer(e)]
<1> DEFINE q == calls[e]
           m == Head(q).message
           x == IF m = Send THEN RestartSend(al[e]) ELSE <<>>
<1>1. Tail(q) \in Seq(CallRecords) /\ Call(Send) \in CallRecords /\ Peer(e) \in Ends /\ Peer(e) # e
  BY HeadIsCall, RequestsAreMessages, TwoEnds DEF Call, CallRecords
<1>2. calls'[e] = x \o Tail(q) /\ calls'[Peer(e)] = calls[Peer(e)]
  BY <1>1 DEF AfterFailure, TypeOK
<1>3. x = <<>> \/ (m = Send /\ x = <<Call(Send)>>)
  BY DEF RestartSend
<1> HIDE DEF x
<1>4. /\ <<>> \o Tail(q) = Tail(q)
      /\ <<Call(Send)>> \o Tail(q) # <<>> /\ Head(<<Call(Send)>> \o Tail(q)) = Call(Send)
      /\ Tail(<<Call(Send)>> \o Tail(q)) = Tail(q)
  BY <1>1, JoinedCalls
<1>5. \/ calls'[e] = Tail(q)
      \/ m = Send /\ calls'[e] # <<>> /\ Head(calls'[e]) = Call(Send) /\ Tail(calls'[e]) = Tail(q)
  BY <1>2, <1>3, <1>4
<1>6. Queue(e, calls'[e])
  <2>1. /\ Call(Send).message = Send /\ Call(Negotiate).message = Negotiate
        /\ Head(<<Call(Negotiate)>>) = Call(Negotiate) /\ Tail(<<Call(Negotiate)>>) = <<>>
    BY DEF Call
  <2>2. /\ Send \in SaidBy(e) /\ (e = CommModule => Negotiate \in SaidBy(e))
    BY BothSay, TwoEnds DEF Asks
  <2>3. \/ Tail(q) = <<>>
        \/ e = CommModule /\ m = Send /\ Tail(q) = <<Call(Negotiate)>>
    BY DEF Queue, Calling
  <2> HIDE DEF m
  <2> QED BY <1>5, <2>1, <2>2, <2>3 DEF Queue
<1> QED BY <1>2, <1>5, <1>6

LEMMA DeviceFails ==
    ASSUME LinkInv, CallFails(Device)
    PROVE  Consistent'
<1> USE DEF LinkInv, Consistent
<1> DEFINE q == calls[Device]
           m == Head(q).message
           s == status[Device]
           t == status'[Device]
<1>1. /\ Device \in Ends /\ CommModule \in Ends /\ Device # CommModule
      /\ Peer(Device) = CommModule
  BY TwoEnds
<1>2. Calling(Device) /\ AfterFailure(Device, m) /\ rx' = rx /\ running' = running
  BY DEF CallFails
<1>3. s \in Statuses
  BY <1>1 DEF TypeOK
<1>4. m \in SaidBy(Device) /\ Tail(q) = <<>> /\ Queue(Device, q)
  BY <1>1, <1>2 DEF Roles, Queue, Calling
<1>5. /\ t = FailsFor(s, m)
      /\ status'[CommModule] = status[CommModule]
  <2>1. m # Response("OK", "reset") /\ m # Response("OK", "reload")
    BY <1>4, DeviceSays
  <2>2. status' = [status EXCEPT ![Device] = AfterAnswer(FailsFor(s, m), m)]
    BY <1>2 DEF AfterFailure
  <2>3. AfterAnswer(FailsFor(s, m), m) = FailsFor(s, m)
    BY <2>1 DEF AfterAnswer
  <2> HIDE DEF m, s
  <2> QED BY <1>1, <2>2, <2>3 DEF TypeOK, t
<1>6. /\ baud'[CommModule] = baud[CommModule]
      /\ IsOneTry(m) => baud'[Device] = baud[Device]
  BY <1>1, <1>2 DEF AfterFailure, TypeOK
<1>7. /\ Queue(Device, calls'[Device])
      /\ calls'[Device] = <<>> \/ m = Send
      /\ calls'[CommModule] = calls[CommModule]
  BY <1>1, <1>2, <1>4, CallsOfFailure
<1>8. m \in Messages /\ m \notin {Negotiate, GetConfig}
  BY <1>4, DeviceSays
<1>9. Calls(Device, m) /\ \A x : Calls(Device, x) => x = m
  BY <1>2 DEF Calls
<1> HIDE DEF q, m, s, t
<1>10. Leaves(CommModule) /\ rx'[CommModule] = rx[CommModule]
  BY <1>2, <1>5, <1>6, <1>7 DEF Leaves
<1>11. /\ t.pending = s.pending /\ t.haveConfiguration = s.haveConfiguration
       /\ t.commModulePresent = s.commModulePresent
       /\ t.negotiateComplete = s.negotiateComplete
       /\ IF IsOneTry(m)
          THEN /\ t.state = s.state /\ t.resetNeeded = s.resetNeeded
               /\ t.delayed \subseteq s.delayed \cup (IF IsRequest(m) THEN {m} ELSE {})
          ELSE t.state = "INIT" /\ t.resetNeeded /\ t.delayed = s.delayed
  BY <1>3, <1>5, <1>8, StatusOfFailure
<1>12. Roles'
  <2>1. IsRequest(m) => m \in Asks(Device) \ {Send}
    <3>1. \A code, to : m = Response(code, to) => ~IsRequest(m)
      BY KindsOfMessages DEF IsRequest, Kinds
    <3>2. IsRequest(m) => m # Send
      BY KindsOfMessages DEF IsRequest
    <3> QED BY <1>4, <3>1, <3>2 DEF SaidBy
  <2>2. /\ s.delayed \subseteq Asks(Device) \ {Send}
        /\ s.pending \in {"none"} \cup {x.kind : x \in Asks(Device)}
    BY <1>1 DEF Roles, s
  <2>3. /\ t.delayed \subseteq Asks(Device) \ {Send}
        /\ t.pending \in {"none"} \cup {x.kind : x \in Asks(Device)}
    BY <1>11, <2>1, <2>2
  <2> QED BY <1>1, <1>2, <1>7, <1>10, <2>3, RolesAreKept DEF t
<1>13. DeviceIsConsistent'
  BY <1>11 DEF DeviceIsConsistent, s, t
<1>14. HasConfiguration' <=> HasConfiguration
  BY <1>10, ConfigurationIsLeft DEF Ignores
<1>15. DeviceKnows => DeviceKnows'
  <2>1. CASE ~IsOneTry(m)
    BY <1>11, <2>1 DEF DeviceKnows, t
  <2>2. CASE IsOneTry(m)
    <3>1. m # Send /\ m # Configuration
      BY <2>2, KindsOfMessages DEF IsOneTry, Kinds, Configuration
    <3>2. ~Calls(Device, Configuration)
      BY <1>9, <3>1
    <3>3. ~Calls(Device, Negotiated)'
      BY <1>7, <3>1 DEF Calls, Calling
    <3> QED BY <1>2, <1>6, <1>11, <2>2, <3>2, <3>3 DEF DeviceKnows, s, t
  <2> QED BY <2>1, <2>2
<1> QED BY <1>10, <1>12, <1>13, <1>14, <1>15, CommModuleIsLeft

LEMMA CommModuleFails ==
    ASSUME LinkInv, CallFails(CommModule)
    PROVE  Consistent'
<1> USE DEF LinkInv, Consistent
<1> DEFINE q == calls[CommModule]
           m == Head(q).message
           s == status[CommModule]
           u == FailsFor(s, m)
           t == status'[CommModule]
           r == calls'[CommModule]
<1>1. /\ Device \in Ends /\ CommModule \in Ends /\ Device # CommModule
      /\ Peer(CommModule) = Device
  BY TwoEnds
<1>2. Calling(CommModule) /\ AfterFailure(CommModule, m) /\ rx' = rx /\ running' = running
  BY DEF CallFails
<1>3. s \in Statuses
  BY <1>1 DEF TypeOK
<1>4. /\ m \in SaidBy(CommModule) /\ Queue(CommModule, q)
      /\ Tail(q) = <<>> \/ (m = Send /\ Tail(q) = <<Call(Negotiate)>>)
  BY <1>1, <1>2 DEF Roles, Queue, Calling
<1>5. t = AfterAnswer(u, m) /\ status'[Device] = status[Device]
  BY <1>1, <1>2 DEF AfterFailure, TypeOK
<1>6. /\ baud'[Device] = baud[Device]
      /\ IsOneTry(m) => baud'[CommModule] = baud[CommModule]
  BY <1>1, <1>2 DEF AfterFailure, TypeOK
<1>7. /\ Queue(CommModule, r)
      /\ \/ r = Tail(q)
         \/ m = Send /\ r # <<>> /\ Head(r) = Call(Send) /\ Tail(r) = Tail(q)
      /\ calls'[Device] = calls[Device]
  BY <1>1, <1>2, <1>4, CallsOfFailure
<1>8. /\ WillNegotiate <=> (m = Negotiate \/ Tail(q) # <<>>)
      /\ \A x : Calls(CommModule, x) <=> m = x
  BY <1>2 DEF WillNegotiate, Calls
<1>9. u \in Statuses
  BY <1>3, <1>4, CommModuleSays, FailsForOK
<1> HIDE DEF q, m, s, t, u, r
<1>10. Ignores(Device)
  BY <1>2, <1>5, <1>6, <1>7 DEF Leaves, Ignores
<1>11. /\ m \in Messages /\ m # Configuration /\ m # Negotiated
       /\ Negotiate # GetConfig /\ Send # Negotiate /\ Send # GetConfig
       /\ Negotiate.kind = "negotiate" /\ GetConfig.kind = "getconfig" /\ Send.kind = "send"
  BY <1>4, CommModuleSays, KindsOfMessages DEF Configuration, Negotiated
<1>12. /\ u.pending = s.pending /\ u.haveConfiguration = s.haveConfiguration
       /\ IF IsOneTry(m)
          THEN /\ u.state = s.state /\ u.resetNeeded = s.resetNeeded
               /\ u.delayed \subseteq s.delayed \cup (IF IsRequest(m) THEN {m} ELSE {})
          ELSE u.state = "INIT" /\ u.resetNeeded /\ u.delayed = s.delayed
  BY <1>3, <1>11, StatusOfFailure DEF u
<1>13. t.delayed = u.delayed /\ t.pending = u.pending
  BY <1>5, <1>9, LinkControlsAnswered
<1>14. ~Calls(CommModule, GetConfig)' /\ (WillNegotiate' <=> Tail(q) # <<>>)
  <2>1. /\ Call(Negotiate).message = Negotiate /\ Call(Send).message = Send
        /\ <<Call(Negotiate)>> # <<>>
        /\ Head(<<Call(Negotiate)>>) = Call(Negotiate) /\ Tail(<<Call(Negotiate)>>) = <<>>
    BY DEF Call
  <2> QED BY <1>4, <1>7, <1>11, <2>1 DEF Calls, Calling, WillNegotiate, r
<1>15. CASE m \in {Negotiate, GetConfig}
  <2>1. IsRequest(m) /\ IsOneTry(m) /\ m # Send /\ Tail(q) = <<>>
    BY <1>4, <1>11, <1>15 DEF IsRequest, IsOneTry, Kinds
  <2>2. t = u
    <3>1. \A code, to : m # Response(code, to)
      BY <1>11, <1>15, KindsOfMessages
    <3> QED BY <1>5, <3>1 DEF AfterAnswer
  <2>3. /\ t.pending = s.pending /\ t.haveConfiguration = s.haveConfiguration
        /\ t.state = s.state /\ t.resetNeeded = s.resetNeeded
        /\ t.delayed \subseteq s.delayed \cup {m}
    BY <1>12, <2>1, <2>2
  <2>4. CommModuleIsConsistent'
    BY <1>8, <1>11, <1>14, <1>15, <2>1, <2>3 DEF CommModuleIsConsistent, s, t
  <2>5. HasConfiguration' => HasConfiguration
    BY <1>2, <1>14, <2>3 DEF HasConfiguration, s, t
  <2>6. Roles'
    <3>1. /\ s.delayed \subseteq Asks(CommModule) \ {Send}
          /\ s.pending \in {"none"} \cup {x.kind : x \in Asks(CommModule)}
      BY <1>1 DEF Roles, s
    <3>2. m \in Asks(CommModule) \ {Send}
      BY <1>1, <1>15, <2>1 DEF Asks
    <3>3. /\ t.delayed \subseteq Asks(CommModule) \ {Send}
          /\ t.pending \in {"none"} \cup {x.kind : x \in Asks(CommModule)}
      BY <2>3, <3>1, <3>2
    <3> QED BY <1>1, <1>2, <1>7, <1>10, <3>3, RolesAreKept DEF t, r, Ignores
  <2>7. HasConfiguration' => DeviceKnows'
    BY <1>6, <1>10, <2>1, <2>5, KnowledgeIsLeft DEF Ignores
  <2> QED BY <1>10, <2>4, <2>6, <2>7, DeviceIsLeft DEF Ignores
<1>16. CASE m \notin {Negotiate, GetConfig}
  <2>1. ~IsOneTry(m)
    <3>1. m.kind \in {"send", "response"}
      BY <1>4, <1>11, <1>16, CommModuleAnswersOrAsks
    <3>2. m.kind = "response" => m.to # "negotiate"
      BY <1>4, CommModuleSays, KindsOfMessages, TwoEnds DEF SaidBy, Asks, AskedBy, Controls
    <3> QED BY <3>1, <3>2 DEF IsOneTry, Kinds
  <2>2. u.state = "INIT" /\ u.resetNeeded /\ u.delayed = s.delayed
    BY <1>12, <2>1
  <2>3. /\ t.state = "INIT" /\ t.resetNeeded
        /\ t.haveConfiguration => s.haveConfiguration
    <3>1. \/ t = u
          \/ t = [u EXCEPT !.resetNeeded = TRUE]
          \/ t = [u EXCEPT !.haveConfiguration = FALSE,
                           !.state = IF @ = "NORMAL" THEN "NEEDCONFIG" ELSE @]
      BY <1>5, <1>9, LinkControlsAnswered
    <3> QED BY <1>9, <1>12, <2>2, <3>1 DEF Statuses
  <2>4. CommModuleIsConsistent' /\ ~HasConfiguration'
    BY <1>8, <1>12, <1>13, <1>14, <2>2, <2>3
       DEF CommModuleIsConsistent, HasConfiguration, s, t
  <2> QED BY <1>2, <1>7, <1>10, <1>12, <1>13, <2>2, <2>4, CommModuleActs DEF s, t, r
<1> QED BY <1>15, <1>16

-----------------------------------------------------------------------------
LEMMA LinkStep ==
    ASSUME LinkInv, BestBaud # DefaultBaud \/ "powerUp" \notin Restarts, [Next]_vars
    PROVE  Consistent'
<1> USE DEF LinkInv
<1>1. CASE UNCHANGED vars
  BY <1>1 DEF vars, Consistent, Roles, DeviceIsConsistent, CommModuleIsConsistent,
              HasConfiguration, DeviceKnows, WillNegotiate, Calls, Calling
<1>2. ASSUME NEW e \in Ends, CallEnds(e)
      PROVE  Consistent'
  <2>1. CASE CallSucceeds(e)
    BY <2>1, TwoEnds, DeviceSucceeds, CommModuleSucceeds
  <2>2. CASE CallIsNotAcknowledged(e)
    BY <2>2, NotAcknowledged
  <2>3. CASE CallFails(e)
    BY <2>3, TwoEnds, DeviceFails, CommModuleFails
  <2> QED BY <1>2, <2>1, <2>2, <2>3 DEF CallEnds
<1>3. ASSUME NEW e \in Ends, HandleReceived(e)
      PROVE  Consistent'
  <2>1. CASE HandleNegotiate(e)
    BY <2>1, NegotiationIsAsked
  <2>2. CASE HandleNegotiated(e)
    BY <2>2, NegotiationIsAnswered
  <2>3. CASE HandleConfiguration(e)
    BY <2>3, ConfigurationIsAnswered
  <2>4. CASE \/ HandleGet(e)
             \/ HandleLinkControl(e)
             \/ HandleSendRefused(e)
             \/ HandleSend(e)
    BY <2>4, RequestsHandled, CalmIsConsistent
  <2>5. CASE \/ HandleBadResponse(e)
             \/ HandleNETR(e)
             \/ HandleFailedSend(e)
             \/ HandleSent(e)
             \/ HandleOther(e)
    BY <2>5, ResponsesHandled, CalmIsConsistent
  <2> QED BY <1>3, <2>1, <2>2, <2>3, <2>4, <2>5 DEF HandleReceived
<1>4. ASSUME NEW e \in Ends, Run(e)
      PROVE  Consistent'
  BY <1>3, <1>4, LinkIsReset, LinkIsInitialized, ConfigurationIsAsked DEF Run
<1>5. ASSUME NEW e \in Ends,
             \/ FailureIsDue(e)
             \/ WaitABit(e)
             \/ WaitEnds(e)
             \/ RequestTimesOut(e)
             \/ InhibitionEnds(e)
             \/ SendTimesOut(e)
             \/ ResetRequested(e)
             \/ SendMessage(e)
             \/ SendOKResponse(e)
      PROVE  Consistent'
  BY <1>5, TimePasses, ApplicationSends, CalmIsConsistent
<1>6. ASSUME NEW e \in Ends, RunDisconnected(e) \/ HandleDelayedRequests(e) \/ TrafficTimeout(e)
      PROVE  Consistent'
  BY <1>6, ConfigurationIsAsked, DelayedIsAsked, TrafficStops
<1>7. CASE InhibitOptionalCommunication \/ \E m \in DeviceRequests : DeviceRequest(m)
  BY <1>7, TwoEnds, TimePasses, ApplicationSends, StatusIsPutOff, CalmIsConsistent
<1>8. CASE NotePowerUp
  BY <1>8, PowerIsUp DEF NotePowerUp
<1>9. CASE Reboot
  BY <1>9, CommModuleStarts
<1> QED BY <1>1, <1>2, <1>4, <1>5, <1>6, <1>7, <1>8, <1>9 DEF Next

\* Once the line has come to rest, the device cannot have missed that the communication
\* module has its configuration.
LEMMA RestIsUp ==
    ASSUME LinkInv, Settled
    PROVE  ~IsBusy(Device) /\ status[CommModule].haveConfiguration
<1> USE DEF LinkInv, Consistent
<1> DEFINE d == status[Device]
           c == status[CommModule]
<1>1. /\ Device \in Ends /\ CommModule \in Ends /\ Device # CommModule
      /\ d.state \in {"INIT", "DISCONNECTED", "NEEDCONFIG", "NORMAL"}
  BY TwoEnds DEF TypeOK, Statuses
<1>2. /\ baud[Device] = baud[CommModule] /\ c.state = "NORMAL"
      /\ d.negotiateComplete /\ d.pending = "none"
      /\ \A e \in Ends : Polled(e) /\ Idle(e) /\ ~Calling(e) /\ running[e] = "idle"
  BY <1>1 DEF Settled, LineIsAlive, LineIsUsable, Polled, Idle
<1>3. \A e \in Ends : ~status[e].resetNeeded /\ status[e].state # "INIT"
  BY <1>2 DEF Settled, InProgress
<1>4. c.haveConfiguration
  BY <1>2 DEF CommModuleIsConsistent
<1>5. d.haveConfiguration /\ d.state = "NORMAL"
  BY <1>1, <1>2, <1>3 DEF DeviceIsConsistent
<1>6. HasConfiguration
  BY <1>1, <1>2, <1>3, <1>4 DEF HasConfiguration
<1>7. d.commModulePresent
  BY <1>1, <1>2, <1>3, <1>6 DEF DeviceKnows, Calls
<1> QED BY <1>2, <1>4, <1>5, <1>7 DEF IsBusy, IsReady

\* C1222TL_Run never comes to rest with the negotiation half done: whatever is lost and
\* whoever restarts, on a line that is alive and has nothing left to do the device may
\* send and the communication module has its configuration.  This needs the two speeds to
\* differ, or a device that is not powered up on a line in use: with one speed a request to
\* negotiate from before the power up can be answered after it, and the device waits
\* for a request of its configuration that was already answered.
THEOREM TransportLinkIsUp ==
    (BestBaud # DefaultBaud \/ "powerUp" \notin Restarts) => (Spec => []LinkIsUp)
<1> SUFFICES ASSUME BestBaud # DefaultBaud \/ "powerUp" \notin Restarts
             PROVE  Spec => []LinkIsUp
  OBVIOUS
<1>1. Init => Consistent
  <2> SUFFICES ASSUME Init PROVE Consistent
    OBVIOUS
  <2>1. \A e \in Ends : /\ calls[e] = <<>> /\ rx[e] = NoMessage
                        /\ status[e] = InitialStatus(e)
    BY DEF Init
  <2>2. \A e \in Ends : /\ InitialStatus(e).pending = "none" /\ InitialStatus(e).delayed = {}
                        /\ InitialStatus(e).state = "INIT"
    BY DEF InitialStatus
  <2>3. InitialStatus(Device).haveConfiguration
    BY DEF InitialStatus
  <2>4. ~InitialStatus(CommModule).haveConfiguration
    BY TwoEnds DEF InitialStatus
  <2>5. Roles
    BY <2>1, <2>2 DEF Roles, Queue
  <2>6. DeviceIsConsistent
    BY <2>1, <2>2, <2>3, TwoEnds DEF DeviceIsConsistent
  <2>7. CommModuleIsConsistent
    BY <2>1, <2>2, <2>4, TwoEnds DEF CommModuleIsConsistent, WillNegotiate, Calling
  <2>8. ~HasConfiguration
    BY <2>1, <2>4, TwoEnds, KindsOfMessages DEF HasConfiguration, Configuration
  <2> QED BY <2>5, <2>6, <2>7, <2>8 DEF Consistent
<1>2. TypeOK /\ Consistent /\ [Next]_vars => Consistent'
  BY LinkStep DEF LinkInv
<1>3. TypeOK /\ Consistent => LinkIsUp
  BY RestIsUp DEF LinkInv, LinkIsUp
<1> QED BY <1>1, <1>2, <1>3, TransportTypeOK, PTL DEF Spec


=============================================================================
