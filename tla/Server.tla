-------------------------------- MODULE Server --------------------------------
(***************************************************************************)
(* A device that answers requests: the loop of its application             *)
(* (simple_serial_device.c), the server (c1222server.c) and what the        *)
(* application layer does of security and of error answers on the way.      *)
(* The network may deliver a request again, late and in any order: its      *)
(* client repeats it, or a relay does.                                      *)
(***************************************************************************)
EXTENDS ReceiveHistory, FiniteSets

CONSTANTS
    RequestMessages,     \* the requests, by name
    Keys,                \* the key ids of the device
    RegisteredApTitle,   \* registrationStatus.nodeApTitle
    ConfiguredApTitle,   \* transportConfig.nodeApTitle
    FirstApInvocationId, \* nextApInvocationId at the start
    IdLimit,             \* the invocation ids wrap here (65536)
    MaxTime,             \* bound: the ticks of a behaviour
    MaxReceptions,       \* bound: the messages received in a behaviour
    MaxRequests          \* bound: the different ones among them

MaxEpsemLength   == 515      \* MAX_EPSEM_MESSAGE_LENGTH
MaxAcseOverhead  == 128      \* MAX_ACSE_OVERHEAD_LENGTH
MaxAcseLength    == MaxEpsemLength + MaxAcseOverhead
IdentLength      == 49       \* what C1222PsemIdentResponse writes

VARIABLES
    time,
    registered,             \* status.isRegistered
    requireEncryption,      \* status.requireEncryptionOrAuthenticationIfKeysExist
    available,              \* the request the server can take, or Nobody
    receiveHistory,
    nextApInvocationId,
    processMessageResponse,
    messageSent,            \* the application waits for its answer to be sent
    log,                    \* what became of the messages received
    answers                 \* given to SendMessage for the last of them

vars == <<time, registered, requireEncryption, available, receiveHistory,
          nextApInvocationId, processMessageResponse, messageSent, log, answers>>

Nobody   == "nobody"
Requests == DOMAIN RequestMessages

\* The requests as the application layer recognizes them, and those it trusts.
RecognizedMessages == [r \in Requests |-> Recognized(RequestMessages[r])]
Request(r)         == RecognizedMessages[r]
Understood == {r \in Requests : StandardOf(RequestMessages[r]) # "none"}
Secure     == {r \in Understood : IsSecure(Request(r), Keys)}

\* A request that names no caller is not numbered 0, as no client numbers one
\* (GetNextApInvocationId): it would match an entry that has just been zeroed.
ASSUME ServerAssumption ==
    \A r \in Understood :
        ValidCallingApTitle(Request(r)) = None => CallingApInvocationId(Request(r)) # 0

\* A message is a standard and elements; a valid epsem is a sequence of requests
\* and responses, each with the length of what a read of it gives.
ASSUME RequestsAssumption ==
    \A r \in Requests :
        LET m     == RequestMessages[r]
            epsem == Find(m, "BE").value.epsem
        IN  /\ m = Message(m.standard, m.elements)
            /\ r \in Understood /\ epsem.valid =>
                  epsem.items \in Seq([command : STRING, response : Nat])

-----------------------------------------------------------------------------
\* GetNextApInvocationId: 0 is skipped.
IdUsed(next) == IF next = 0 THEN 1 ELSE next

NextId(next) == (IdUsed(next) + 1) % IdLimit

MyApTitle == IF registered THEN RegisteredApTitle ELSE ConfiguredApTitle

\* C1222AL_ConstructCallingApTitle: registered or not, the registered title.
OwnApTitle ==
    IF RegisteredApTitle.tag \in {"06", "0d"} THEN RegisteredApTitle ELSE ConfiguredApTitle

\* The node has an ApTitle, in the buffer of one, and ids to number requests with.
\* An answer fits its buffer with titles of up to 22 bytes (C1222_APTITLE_LENGTH is 20).
ASSUME NodeAssumption ==
    /\ {RegisteredApTitle, ConfiguredApTitle} \subseteq ApTitles
    /\ ValidFor(OwnApTitle, "0d")
    /\ ApTitleLength \in 1..22
    /\ IdLimit \in Nat \ {0, 1}
    /\ FirstApInvocationId \in 0..(IdLimit - 1)

Response(code, length) == [command |-> "response", code |-> code, response |-> length]

\* An epsem that asks for no answer (0x82).
ResponseEpsem(items, length) ==
    [control |-> "never", items |-> items, length |-> length, valid |-> TRUE]

-----------------------------------------------------------------------------
\* The elements of an answer, each copied from the request if it is there.
CopyContext(m) == IF HasTag(m, "A1") THEN SetContext(m.standard) ELSE <<>>

CopyCalledApTitle(m) ==
    IF HasTag(m, "A6") THEN SetApTitle(m.standard, CallingApTitle(m), "A2") ELSE <<>>

CopyQualifier(m) ==
    IF HasTag(m, "A7")
    THEN SetCallingAeQualifier(m.standard, CallingAeQualifier(m) \cap {"test", "notification"})
    ELSE <<>>

CopyCalledId(m) ==
    IF HasTag(m, "A8") THEN SetApInvocationId(m.standard, CallingApInvocationId(m), "A4") ELSE <<>>

\* A mutation of Header: the order of one standard for both.
OrderOf2006(m, title, auth, id) ==
    Message(m.standard,
        CopyContext(m) \o CopyCalledApTitle(m) \o SetApTitle(m.standard, title, "A6")
            \o CopyQualifier(m) \o auth \o CopyCalledId(m)
            \o SetApInvocationId(m.standard, id, "A8"))

\* The elements before the user information, in the order of the standard.
Header(m, title, auth, id) ==
    LET own == SetApTitle(m.standard, title, "A6") \o CopyQualifier(m)
        new == SetApInvocationId(m.standard, id, "A8")
    IN  Message(m.standard,
            CopyContext(m) \o CopyCalledApTitle(m) \o
            IF m.standard = "2006" THEN own \o auth \o CopyCalledId(m) \o new
            ELSE CopyCalledId(m) \o own \o new \o auth)

\* C1222AL_MakeSimpleResponseMessage: an error code in plain text.
SimpleResponse(m, code, id) ==
    LET length == IF code = "RSTL" THEN 6 ELSE 2
    IN  SetUserInformation(Header(m, OwnApTitle, <<>>, id),
                           ResponseEpsem(<<Response(code, length - 1)>>, length), FALSE)

-----------------------------------------------------------------------------
\* C1222Server_ProcessPsemRequest.  The table server answers a read within the
\* length it is given.  What it makes of a write, and the stack of a disconnect,
\* is its own: the name of the request tells whether it is refused.  An
\* identification or a disconnect that is longer than its command is malformed.
ProcessPsemRequest(item, maxResponseLength, isRegistered) ==
    CASE item.command = "ident" -> Response("OK", IdentLength)
      [] item.command \in {"read", "read factory data"} ->
            IF item.response <= maxResponseLength THEN Response("OK", item.response)
            ELSE Response("ERR", 1)
      [] item.command = "offset read" ->
            IF item.response > maxResponseLength THEN Response("ONP", 1)
            ELSE Response("OK", item.response)
      [] item.command \in {"write", "write vendor field", "disconnect"} -> Response("OK", 1)
      [] item.command \in {"bad write", "long ident", "long disconnect"} -> Response("IAR", 1)
      [] item.command = "refused disconnect" -> Response("BSY", 1)
      [] item.command = "deregister" ->
            IF isRegistered /\ EncodedLength(RegisteredApTitle) + 1 <= maxResponseLength
            THEN Response("OK", EncodedLength(RegisteredApTitle) + 1)
            ELSE Response("IAR", 1)
      [] OTHER -> Response("SNS", 1)

\* A mutation: the length of a long response is counted as one byte.
OneByteOfLengthIsCounted(done, item) ==
    LET maxResponseLength == MaxEpsemLength - 4 - done.length
        response == ProcessPsemRequest(item, maxResponseLength, done.registered)
    IN  [done EXCEPT !.items      = Append(@, response),
                     !.length     = @ + 1 + response.response,
                     !.error      = @ \/ response.code # "OK",
                     !.registered = @ /\ ~(item.command = "deregister" /\ response.code = "OK")]

\* One turn of the loop of ProcessEpsemRequests.
ProcessEpsemRequest(done, item) ==
    LET maxResponseLength == MaxEpsemLength - 4 - done.length
        response == ProcessPsemRequest(item, maxResponseLength, done.registered)
    IN  IF done.full \/ item.command = "response" THEN done
        ELSE IF done.length >= MaxEpsemLength - 3
        THEN [done EXCEPT !.error = TRUE, !.full = TRUE]
        ELSE IF maxResponseLength < 5
        THEN [done EXCEPT !.items = Append(@, Response("ERR", 1)), !.length = @ + 2,
                          !.error = TRUE, !.full = TRUE]
        ELSE [done EXCEPT
                 !.items      = Append(@, response),
                 !.length     = @ + SizeOfLength(response.response) + response.response,
                 !.error      = @ \/ response.code # "OK",
                 !.registered = @ /\ ~(item.command = "deregister" /\ response.code = "OK")]

\* ... and the first k of them.
ProcessFirst(items, isRegistered, k) ==
    LET done[n \in 0..k] ==
            IF n = 0 THEN [items |-> <<>>, length |-> 0, error |-> FALSE, full |-> FALSE,
                           registered |-> isRegistered]
            ELSE ProcessEpsemRequest(done[n - 1], items[n])
    IN  done[k]

ProcessEpsemRequests(items, isRegistered) == ProcessFirst(items, isRegistered, Len(items))

-----------------------------------------------------------------------------
\* This node's title in an answer: absolute, or relative as the caller's.
AnswerApTitle(m) ==
    IF IsRelative(CallingApTitle(m)) THEN
        IF MakeRelativeFrom(OwnApTitle) # None THEN MakeRelativeFrom(OwnApTitle) ELSE OwnApTitle
    ELSE IF CanBeAbsolute(OwnApTitle, m.standard)
    THEN MakeAbsoluteFrom(OwnApTitle, m.standard) ELSE OwnApTitle

\* BuildResponse up to the user information.
ResponseHeader(m, id) ==
    Header(m, AnswerApTitle(m),
           IF IsEncrypted(m) THEN SetAuthValueForEncryption(m.standard, Key(m))
           ELSE IF IsAuthenticated(m) THEN SetInitialAuthValueForAuthentication(m.standard, Key(m))
           ELSE <<>>,
           id)

\* ... and from there, when the epsem fits.  It does not fail: the elements are
\* those just built, the key is the request's, and what is encrypted is padded to
\* blocks of 8 bytes and shorter than 1000 (C1222CBCEncrypt refuses nothing else).
Protect(m, epsem, header) ==
    LET message == SetUserInformation(header, epsem, IsEncrypted(m))
    IN  IF IsEncrypted(m) THEN Encrypt(message, Key(m))
        ELSE IF IsAuthenticated(m) THEN UpdateAuthValue(message, Key(m))
        ELSE message

\* What BuildResponse and ProcessMessage send, and the next id: the answer, or
\* that it is too large, and a code left from an earlier request after that.
Answers(m, epsem) ==
    LET first  == nextApInvocationId
        header == ResponseHeader(m, IdUsed(first))
        second == NextId(first)
        third  == NextId(second)
        refusal == SimpleResponse(m, "RSTL", IdUsed(second))
    IN  IF UserInformationFits(header, epsem, MaxAcseLength)
        THEN [sent |-> <<Protect(m, epsem, header)>>, next |-> second, fits |-> TRUE]
        ELSE IF processMessageResponse = "OK"
        THEN [sent |-> <<refusal>>, next |-> third, fits |-> FALSE]
        ELSE [sent |-> <<refusal, SimpleResponse(m, processMessageResponse, IdUsed(third))>>,
              next |-> NextId(third), fits |-> FALSE]

\* Whether the epsem of the request asks for an answer.
WantsAnswer(m, done) ==
    LET control == Find(m, "BE").value.epsem.control
    IN  control = "always" \/ (control = "onexception" /\ done.error)

-----------------------------------------------------------------------------
IsDuplicate(m) == IsMessageAlreadyReceived(receiveHistory, m, time, MyApTitle)

\* What became of a message, and the answers that were given to SendMessage.
Note(r, outcome, sent) ==
    /\ log' = Append(log, [request |-> r, at |-> time, outcome |-> outcome])
    /\ answers' = sent

\* ProcessMeterMessage of a response.
IgnoreResponse(m) ==
    /\ IsResponse(m)
    /\ processMessageResponse' = "OK"
    /\ messageSent' = FALSE
    /\ Note(available, "executed", <<>>)
    /\ UNCHANGED <<registered, nextApInvocationId>>

\* ... of an epsem that is not valid, as one can be that was encrypted.
RefuseEpsem(m) ==
    /\ ~IsResponse(m)
    /\ ~Find(m, "BE").value.epsem.valid
    /\ processMessageResponse' = "IAR"
    /\ messageSent' = FALSE
    /\ Note(available, "executed", <<SimpleResponse(m, "IAR", IdUsed(nextApInvocationId))>>)
    /\ nextApInvocationId' = NextId(nextApInvocationId)
    /\ UNCHANGED registered

\* A mutation of ServeSilently: the code of an earlier request is left.
CodeIsLeft(m, done) ==
    /\ ~WantsAnswer(m, done)
    /\ UNCHANGED <<processMessageResponse, nextApInvocationId>>
    /\ messageSent' = FALSE
    /\ Note(available, "executed",
            IF processMessageResponse = "OK" THEN <<>>
            ELSE <<SimpleResponse(m, processMessageResponse, IdUsed(nextApInvocationId))>>)

\* ... of a request that wants no answer.
ServeSilently(m, done) ==
    /\ ~WantsAnswer(m, done)
    /\ processMessageResponse' = "OK"
    /\ messageSent' = FALSE
    /\ Note(available, "executed", <<>>)
    /\ UNCHANGED nextApInvocationId

\* ... and of one that wants one: SendMessage may refuse it.
ServeAndAnswer(m, done) ==
    LET built == Answers(m, ResponseEpsem(done.items, done.length))
    IN  /\ WantsAnswer(m, done)
        /\ messageSent' \in {FALSE, built.fits}
        /\ Note(available, "executed", built.sent)
        /\ nextApInvocationId' = built.next
        /\ UNCHANGED processMessageResponse

Serve(m) ==
    /\ ~IsResponse(m)
    /\ Find(m, "BE").value.epsem.valid
    /\ LET done == ProcessEpsemRequests(Find(m, "BE").value.epsem.items, registered)
       IN  /\ registered' = done.registered
           /\ ServeSilently(m, done) \/ ServeAndAnswer(m, done)

\* The turn of the application's loop that finds a message.
DropDuplicate(m) ==
    /\ IsDuplicate(m)
    /\ Note(available, "dropped", <<>>)
    /\ UNCHANGED <<registered, nextApInvocationId, processMessageResponse, messageSent>>

HandleMessage ==
    /\ available # Nobody /\ ~messageSent
    /\ LET m == Request(available)
       IN  /\ \/ DropDuplicate(m)
              \/ ~IsDuplicate(m) /\ (IgnoreResponse(m) \/ RefuseEpsem(m) \/ Serve(m))
           /\ receiveHistory' = NextHistory(receiveHistory, m, time, MyApTitle)
    /\ available' = Nobody
    /\ UNCHANGED <<time, requireEncryption>>

SendMessageComplete ==
    /\ messageSent
    /\ messageSent' = FALSE
    /\ UNCHANGED <<time, registered, requireEncryption, available, receiveHistory,
                   nextApInvocationId, processMessageResponse, log, answers>>

-----------------------------------------------------------------------------
\* A request reaches TLMessageReceived: the transport gives it the next one when
\* the one before has been handled.
Received(r) ==
    /\ available = Nobody
    /\ Len(log) < MaxReceptions
    /\ Cardinality({r} \cup {log[i].request : i \in DOMAIN log}) <= MaxRequests
    /\ r \in Understood
    /\ UNCHANGED <<time, registered, requireEncryption, receiveHistory,
                   processMessageResponse, messageSent>>

\* MeterProcessReceivedMessage wants it secured.
MustBeSecured(m) ==
    requireEncryption /\ Keys # {} /\ ~IsEncryptedOrAuthenticated(m)

\* A mutation of ReceiveMessage: plain text is good enough.
AcceptsPlainText(r) ==
    /\ Received(r)
    /\ r \in Secure
    /\ available' = r
    /\ UNCHANGED <<nextApInvocationId, log, answers>>

ReceiveMessage(r) ==
    /\ Received(r)
    /\ r \in Secure /\ ~MustBeSecured(Request(r))
    /\ available' = r
    /\ UNCHANGED <<nextApInvocationId, log, answers>>

RefuseInsecure(r) ==
    /\ Received(r)
    /\ r \notin Secure \/ MustBeSecured(Request(r))
    /\ Note(r, "refused", <<SimpleResponse(Request(r), "SME", IdUsed(nextApInvocationId))>>)
    /\ nextApInvocationId' = NextId(nextApInvocationId)
    /\ UNCHANGED available

Tick ==
    /\ time < MaxTime
    /\ time' = time + 1
    /\ UNCHANGED <<registered, requireEncryption, available, receiveHistory,
                   nextApInvocationId, processMessageResponse, messageSent, log, answers>>

-----------------------------------------------------------------------------
Init ==
    /\ time = 0
    /\ registered = TRUE
    /\ requireEncryption \in BOOLEAN
    /\ available = Nobody
    /\ receiveHistory = NoHistory
    /\ nextApInvocationId = FirstApInvocationId
    /\ processMessageResponse = "OK"
    /\ messageSent = FALSE
    /\ log = <<>>
    /\ answers = <<>>

Next ==
    \/ \E r \in Requests : ReceiveMessage(r) \/ RefuseInsecure(r)
    \/ HandleMessage
    \/ SendMessageComplete
    \/ Tick

Spec == Init /\ [][Next]_vars

-----------------------------------------------------------------------------
Asked(i)    == Request(log[i].request)
Executed(i) == log[i].outcome = "executed"
Exempt(m)   == IsExempt(m, RegisteredApTitle) \/ IsExempt(m, ConfiguredApTitle)

\* The requests between two that took a place in the history: which title was
\* this node's at the time is not told.
NotedBetween(i, j) ==
    {k \in (i + 1)..(j - 1) :
        /\ Executed(k)
        /\ ~(IsExempt(Asked(k), RegisteredApTitle) /\ IsExempt(Asked(k), ConfiguredApTitle))}

\* A request that is received again is not executed again while the history
\* holds it: for its lifetime, and until as many others as the ring has places
\* have come.  The communication module's requests and titles below another root
\* than C12.22's are not looked for (c1222al_receiveHistory.c).
NoRepeat ==
    \A i, j \in DOMAIN log :
        (i < j /\ Executed(i) /\ Executed(j) /\ log[i].request = log[j].request)
        => \/ Exempt(Asked(i))
           \/ CallingApTitle(Asked(i)) # None /\ MakeRelativeFrom(CallingApTitle(Asked(i))) = None
           \/ log[j].at - log[i].at > HistoryLifetime
           \/ Cardinality(NotedBetween(i, j)) >= HistorySize

\* Whether two requests come from one caller: both name it, in whatever form, or
\* neither does.
SameCaller(m, n) ==
    LET t == ValidCallingApTitle(m)
        u == ValidCallingApTitle(n)
    IN  IF None \in {t, u} THEN {t, u} = {None} ELSE SameTitle(t, u)

\* A request is dropped only if one of the same caller with the same invocation
\* id was executed within the lifetime of an entry: no caller is silenced by what
\* another sent, or by what it sent long ago.
OnlyDuplicatesAreDropped ==
    \A j \in DOMAIN log : log[j].outcome = "dropped" =>
        \E i \in 1..(j - 1) :
            /\ Executed(i)
            /\ SameCaller(Asked(i), Asked(j))
            /\ CallingApInvocationId(Asked(i)) = CallingApInvocationId(Asked(j))
            /\ log[j].at - (IF log[i].at = 0 THEN 1 ELSE log[i].at) <= HistoryLifetime

-----------------------------------------------------------------------------
\* The message the last answers are for.
Handled == Asked(Len(log))

\* P holds of each of them.
ForAnswers(P(_, _)) == \A k \in DOMAIN answers : P(Handled, answers[k])

IsReadBy(m, a) ==
    /\ StandardOf(a) = m.standard
    /\ IsSecure(a, Keys)
    /\ CalledApInvocationId(a) = CallingApInvocationId(m)
    /\ CallingApInvocationId(a) \in 1..(IdLimit - 1)
    /\ CalledApTitle(a) = CallingApTitle(m)

\* The caller's own stack accepts every answer: it takes it to be of the standard
\* the request was in, decrypts or authenticates it with the request's key, and
\* finds its own title and the request's id in it, and an id of 16 bits that is not
\* 0, which a receive history would take for an empty entry's (BuildResponse,
\* MakeSimpleResponseMessage against TLMessageReceived).
AnswersAreRead == ForAnswers(IsReadBy)

AnswerItems(a) == Find(a, "BE").value.epsem.items
AnswerCodes(a) == {AnswerItems(a)[i].code : i \in DOMAIN AnswerItems(a)}

IsProtectedAs(m, a) ==
    "OK" \in AnswerCodes(a) =>
        /\ IsEncrypted(m) => IsEncrypted(a)
        /\ IsAuthenticated(m) => IsAuthenticated(a)
        /\ requireEncryption /\ Keys # {} => IsEncryptedOrAuthenticated(a)

\* What a request obtained is sent as the request was: encrypted or
\* authenticated; and never in plain text if the device asks for more.
DataIsProtected == ForAnswers(IsProtectedAs)

\* What the responses of an answer take, each with its length in front.
ItemsLength(items) ==
    Total([i \in 1..Len(items) |-> SizeOfLength(items[i].response) + items[i].response])

Fits(m, a) ==
    /\ ItemsLength(AnswerItems(a)) + 1 <= MaxEpsemLength
    /\ LengthOf(Front(a.elements)) + 13 <= MaxAcseOverhead + 1
    /\ FullLength(a) <= MaxAcseLength
    /\ "RSTL" \notin AnswerCodes(a)

\* No identification takes the responses to a message past their 515 bytes: the
\* 49 bytes it writes are not compared with the room that is left
\* (C1222PsemIdentResponse).
IdentHasRoom(items) ==
    \A isRegistered \in BOOLEAN, k \in 1..Len(items) :
        items[k].command = "ident" =>
            ProcessFirst(items, isRegistered, k).length < MaxEpsemLength

HasRoom(m) ==
    LET epsem == Find(m, "BE").value.epsem
    IN  epsem.valid => IdentHasRoom(epsem.items)

\* Every answer is within its buffers, unless an identification outgrew the room that
\* was left: the epsem within its part, the elements before it clear of it while it is
\* moved down (its new start is up to 13 bytes behind them), and the message with the
\* 60 and a length in front no larger than the segmenter's buffer (643); no RSTL is
\* needed.  Every other response keeps to the room it is given (c1222server.c:1074).
AnswersFit == log # <<>> /\ HasRoom(Handled) => ForAnswers(Fits)

\* A request failed, or had no room for a response, not even for an error.
TellsException(epsem, a) ==
    \/ AnswerCodes(a) # {"OK"}
    \/ Len(AnswerItems(a)) <
          Cardinality({i \in DOMAIN epsem.items : epsem.items[i].command # "response"})

\* A message gets the answer its epsem asks for, and a code left from an earlier
\* request is never sent: not to a request that wants no answer, and after an answer
\* only if an identification made that one too large, as a refusal for that leaves
\* the earlier code behind (C1222Server_ProcessMessage).
OneAnswer ==
    log # <<>> /\ Executed(Len(log)) =>
        LET epsem == Find(Handled, "BE").value.epsem
            count == Len(answers)
        IN  /\ HasRoom(Handled) => count <= 1
            /\ IsResponse(Handled) => count = 0
            /\ ~IsResponse(Handled) /\ epsem.valid =>
                  CASE epsem.control = "always" -> count >= 1
                    [] epsem.control = "never" -> count = 0
                    [] OTHER -> count >= 1 => TellsException(epsem, answers[1])

=============================================================================
