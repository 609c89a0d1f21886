----------------------------- MODULE ServerProofs -----------------------------
(***************************************************************************)
(* What the receive history does for a server, for every set of requests,    *)
(* every size of the ring and every lifetime of its entries; then what the   *)
(* answers of a server are: what the caller reads in them, how they are      *)
(* protected, what they take and what they say.                             *)
(***************************************************************************)
EXTENDS Server, AcseMessageProofs, FiniteSetTheorems, TLAPS

\* What a request leaves in the ring.
Entry(r, at) ==
    [receptionTime  |-> IF at = 0 THEN 1 ELSE at,
     sequence       |-> CallingApInvocationId(Request(r)),
     callingApTitle |-> ValidCallingApTitle(Request(r))]

Entries   == {Empty} \cup {Entry(r, at) : r \in Requests, at \in Nat}
Histories == [addIndex : 1..HistorySize, history : [1..HistorySize -> Entries]]
LogEntry  == [request : Requests, at : Nat, outcome : {"executed", "dropped", "refused"}]

Types ==
    /\ time \in Nat
    /\ available \in Understood \cup {Nobody}
    /\ receiveHistory \in Histories
    /\ log \in Seq(LogEntry)

IsExpired(e, now) == now - e.receptionTime > HistoryLifetime

\* How many places of the ring were taken after this one.
Age(h, ii) ==
    IF ii < h.addIndex THEN h.addIndex - 1 - ii ELSE h.addIndex - 1 - ii + HistorySize

Logged(i) == Entry(log[i].request, log[i].at)
Noted(i)  == NotedBetween(i, Len(log) + 1)

\* Every entry in use is that of a request that was executed.
HistoryIsLogged ==
    \A ii \in 1..HistorySize :
        receiveHistory.history[ii].receptionTime # 0 =>
            \E i \in DOMAIN log : Executed(i) /\ receiveHistory.history[ii] = Logged(i)

\* A request that was executed is in the ring until its entry expires, or as many
\* others as the ring has places have come; and no deeper in it than as many.
LoggedIsHeld ==
    \A i \in DOMAIN log :
        (/\ Executed(i) /\ ~Exempt(Asked(i))
         /\ ~IsExpired(Logged(i), time)
         /\ Cardinality(Noted(i)) < HistorySize)
        => \E ii \in 1..HistorySize :
              /\ Age(receiveHistory, ii) <= Cardinality(Noted(i))
              /\ receiveHistory.history[ii] = Logged(i)

Inv == Types /\ HistoryIsLogged /\ LoggedIsHeld

-----------------------------------------------------------------------------
(* The history *)

\* The fields of an entry are those of the request it was made from.
LEMMA EntryFields ==
  ASSUME NEW r \in Requests, NEW at \in Nat
  PROVE  /\ Entry(r, at) \in Entries
         /\ Entry(r, at).receptionTime \in Nat \ {0}
         /\ Entry(r, at).receptionTime = IF at = 0 THEN 1 ELSE at
         /\ Entry(r, at).sequence = CallingApInvocationId(Request(r))
         /\ Entry(r, at).callingApTitle = ValidCallingApTitle(Request(r))
  BY DEF Entries, Entry

\* An entry is a record, whose time is a number.
LEMMA EntriesHaveTimes ==
  ASSUME NEW e \in Entries
  PROVE  e.receptionTime \in Nat /\ (e.receptionTime = 0 => e = Empty)
  BY EntryFields DEF Entries, Empty

\* The sweep zeroes entries that have expired, and no other.
LEMMA SweptKeeps ==
  ASSUME NEW h \in Histories, NEW m, NEW now \in Nat
  PROVE  /\ Swept(h, m, now) \in Histories
         /\ Swept(h, m, now).addIndex = h.addIndex
         /\ \A ii \in 1..HistorySize :
               \/ Swept(h, m, now).history[ii] = h.history[ii]
               \/ /\ Swept(h, m, now).history[ii] = Empty
                  /\ IsExpired(h.history[ii], now)
  <1> DEFINE Swiped(ii) == IF ii \in Visited(h, m, now) THEN Maintained(h.history[ii], now)
                           ELSE h.history[ii]
  <1>1. /\ Swept(h, m, now) = [h EXCEPT !.history = [ii \in 1..HistorySize |-> Swiped(ii)]]
        /\ h.addIndex \in 1..HistorySize
        /\ h.history \in [1..HistorySize -> Entries]
    BY DEF Swept, Histories
  <1>2. \A ii \in 1..HistorySize :
           /\ Swiped(ii) \in Entries
           /\ Swiped(ii) = h.history[ii] \/ (Swiped(ii) = Empty /\ IsExpired(h.history[ii], now))
    <2>1. SUFFICES ASSUME NEW ii \in 1..HistorySize
                   PROVE  /\ Swiped(ii) \in Entries
                          /\ \/ Swiped(ii) = h.history[ii]
                             \/ Swiped(ii) = Empty /\ IsExpired(h.history[ii], now)
      OBVIOUS
    <2>2. h.history[ii] \in Entries
      BY <1>1
    <2>3. Empty \in Entries
      BY DEF Entries
    <2>4. QED
      BY <2>2, <2>3 DEF Maintained, IsExpired
  <1> HIDE DEF Swiped
  <1>3. QED
    BY <1>1, <1>2 DEF Histories

\* A request that is added is in the youngest place; the oldest is lost, and the
\* others are one older.
LEMMA AddedAges ==
  ASSUME NEW h \in Histories, NEW r \in Requests, NEW now \in Nat,
         NEW new, new = Added(h, Request(r), now)
  PROVE  /\ new \in Histories
         /\ new.history[h.addIndex] = Entry(r, now)
         /\ Age(new, h.addIndex) = 0
         /\ \A ii \in 1..HistorySize : ii # h.addIndex =>
               /\ new.history[ii] = h.history[ii]
               /\ Age(new, ii) = Age(h, ii) + 1
         /\ Age(h, h.addIndex) = HistorySize - 1
  <1>1. /\ h.addIndex \in 1..HistorySize
        /\ h.history \in [1..HistorySize -> Entries]
        /\ HistorySize \in Nat \ {0}
    BY HistoryAssumption DEF Histories
  <1>2. new = [addIndex |-> (h.addIndex % HistorySize) + 1,
               history  |-> [h.history EXCEPT ![h.addIndex] = Entry(r, now)]]
    BY DEF Added, Entry
  <1>3. (h.addIndex % HistorySize) + 1 = IF h.addIndex = HistorySize THEN 1 ELSE h.addIndex + 1
    BY <1>1
  <1>4. /\ new.addIndex = IF h.addIndex = HistorySize THEN 1 ELSE h.addIndex + 1
        /\ new.history = [h.history EXCEPT ![h.addIndex] = Entry(r, now)]
        /\ new \in Histories
    BY <1>1, <1>2, <1>3, EntryFields DEF Histories
  <1>5. \A ii \in 1..HistorySize : ii # h.addIndex => Age(new, ii) = Age(h, ii) + 1
    <2>1. CASE h.addIndex = HistorySize
      <3>1. new.addIndex = 1
        BY <1>4, <2>1
      <3>2. QED
        BY <1>1, <2>1, <3>1 DEF Age
    <2>2. CASE h.addIndex # HistorySize
      <3>1. new.addIndex = h.addIndex + 1
        BY <1>4, <2>2
      <3>2. QED
        BY <1>1, <3>1 DEF Age
    <2>3. QED
      BY <2>1, <2>2
  <1>6. Age(new, h.addIndex) = 0 /\ Age(h, h.addIndex) = HistorySize - 1
    BY <1>1, <1>4 DEF Age
  <1>7. QED
    BY <1>1, <1>4, <1>5, <1>6

-----------------------------------------------------------------------------
(* What a step does to the log and the history *)

\* A message that is received again is a hit while its entry is there.
LEMMA HeldIsFound ==
  ASSUME NEW h \in Histories, NEW r \in Requests, NEW at \in Nat, NEW now \in Nat,
         NEW ii \in 1..HistorySize, h.history[ii] = Entry(r, at), ~IsExpired(Entry(r, at), now),
         CallingApTitle(Request(r)) = None \/ MakeRelativeFrom(CallingApTitle(Request(r))) # None
  PROVE  Hits(h, Request(r), now) # {}
  <1>1. /\ Entry(r, at).receptionTime # 0
        /\ Maintained(Entry(r, at), now) = Entry(r, at)
    BY EntryFields DEF Maintained, IsExpired
  <1>2. Matches(Entry(r, at), CallingApInvocationId(Request(r)), ValidCallingApTitle(Request(r)))
    BY EntryFields DEF Matches, ValidCallingApTitle, SameTitle
  <1>3. ii \in Hits(h, Request(r), now)
    BY <1>1, <1>2 DEF Hits
  <1>4. QED
    BY <1>3

\* A hit is on the entry of an execution within the lifetime of an entry: no
\* request is mistaken for one by an entry that was zeroed.
LEMMA FoundIsHeld ==
  ASSUME NEW h \in Histories, NEW r \in Understood, NEW now \in Nat,
         NEW ii \in Hits(h, Request(r), now)
  PROVE  /\ ii \in 1..HistorySize
         /\ h.history[ii].receptionTime # 0
         /\ ~IsExpired(h.history[ii], now)
         /\ Matches(h.history[ii], CallingApInvocationId(Request(r)),
                    ValidCallingApTitle(Request(r)))
  <1>1. /\ ii \in 1..HistorySize
        /\ h.history[ii].receptionTime # 0
        /\ Matches(Maintained(h.history[ii], now), CallingApInvocationId(Request(r)),
                   ValidCallingApTitle(Request(r)))
    BY DEF Hits
  <1>2. ValidCallingApTitle(Request(r)) = None => CallingApInvocationId(Request(r)) # 0
    BY ServerAssumption
  <1>3. ~IsExpired(h.history[ii], now)
    BY <1>1, <1>2 DEF Maintained, IsExpired, Matches, Empty
  <1>4. QED
    BY <1>1, <1>3 DEF Maintained, IsExpired

\* A request takes a place in the history whichever title is this node's.
Counts(m) == ~(IsExempt(m, RegisteredApTitle) /\ IsExempt(m, ConfiguredApTitle))

\* One more message is logged; of the others nothing changes.
LEMMA LogGrows ==
  ASSUME log \in Seq(LogEntry), NEW x \in LogEntry, log' = Append(log, x)
  PROVE  /\ Len(log) \in Nat /\ DOMAIN log = 1..Len(log)
         /\ log' \in Seq(LogEntry)
         /\ Len(log') = Len(log) + 1 /\ DOMAIN log' = 1..(Len(log) + 1)
         /\ log'[Len(log) + 1] = x
         /\ \A i \in DOMAIN log : log'[i] = log[i] /\ log[i] \in LogEntry
  OBVIOUS

\* The requests noted between two of the log can be counted.
LEMMA NotedIsFinite ==
  ASSUME log \in Seq(LogEntry), NEW i \in Nat
  PROVE  IsFiniteSet(Noted(i)) /\ Cardinality(Noted(i)) \in Nat
  <1>1. Len(log) \in Nat
    OBVIOUS
  <1>2. Noted(i) \subseteq 1..Len(log)
    BY <1>1 DEF Noted, NotedBetween
  <1>3. IsFiniteSet(1..Len(log))
    BY <1>1, FS_Interval
  <1>4. QED
    BY <1>2, <1>3, FS_Subset, FS_CardinalityType

\* The count of the others grows by one at most, and by one if the message took
\* a place.
LEMMA NotedGrows ==
  ASSUME log \in Seq(LogEntry), NEW x \in LogEntry, log' = Append(log, x),
         NEW i \in DOMAIN log
  PROVE  /\ Cardinality(Noted(i)') \in Nat
         /\ Cardinality(Noted(i)) <= Cardinality(Noted(i)')
         /\ x.outcome = "executed" /\ Counts(Request(x.request))
               => Cardinality(Noted(i)') = Cardinality(Noted(i)) + 1
  <1> DEFINE n == Len(log) + 1
  <1>1. /\ i \in Nat /\ n \in Nat /\ i < n
        /\ \A k \in (i + 1)..(n - 1) : log'[k] = log[k]
        /\ log'[n] = x
        /\ Len(log') + 1 = n + 1
    BY LogGrows
  <1>2. Noted(i)' = IF x.outcome = "executed" /\ Counts(Request(x.request))
                    THEN Noted(i) \cup {n} ELSE Noted(i)
    <2>1. Noted(i) = {k \in (i + 1)..(n - 1) : Executed(k) /\ Counts(Asked(k))}
      BY DEF Noted, NotedBetween, Counts
    <2>2. Noted(i)' = {k \in (i + 1)..n : log'[k].outcome = "executed"
                                            /\ Counts(Request(log'[k].request))}
      BY <1>1 DEF Noted, NotedBetween, Counts, Executed, Asked
    <2>3. \A k : k \in (i + 1)..n <=> k \in (i + 1)..(n - 1) \/ k = n
      BY <1>1
    <2> HIDE DEF n
    <2>4. QED
      BY <1>1, <2>1, <2>2, <2>3 DEF Executed, Asked
  <1>3. n \notin Noted(i)
    BY <1>1 DEF Noted, NotedBetween
  <1> HIDE DEF n
  <1>4. IsFiniteSet(Noted(i)) /\ Cardinality(Noted(i)) \in Nat
    BY <1>1, NotedIsFinite
  <1>5. Cardinality(Noted(i) \cup {n}) = Cardinality(Noted(i)) + 1
    BY <1>3, <1>4, FS_AddElement
  <1>6. QED
    BY <1>2, <1>4, <1>5

-----------------------------------------------------------------------------
(* The actions, as far as the log and the history see them *)

\* A message is logged, and no entry changes but by expiring.
LogsAs(r, outcome) ==
    /\ r \in Understood
    /\ log' = Append(log, [request |-> r, at |-> time, outcome |-> outcome])
    /\ time' = time

Drops(r) ==
    /\ LogsAs(r, "dropped")
    /\ Hits(receiveHistory, Request(r), time) # {}
    /\ receiveHistory' = Swept(receiveHistory, Request(r), time)

Refuses(r) == LogsAs(r, "refused") /\ UNCHANGED receiveHistory

ExecutesExempt(r) ==
    /\ LogsAs(r, "executed")
    /\ Exempt(Request(r))
    /\ UNCHANGED receiveHistory

ExecutesAndAdds(r) ==
    /\ LogsAs(r, "executed")
    /\ Counts(Request(r))
    /\ Hits(receiveHistory, Request(r), time) = {}
    /\ receiveHistory' =
          Added(Swept(receiveHistory, Request(r), time), Request(r), time)

\* One of the two titles is this node's.
LEMMA OneOfTwoTitles ==
  ASSUME NEW m
  PROVE  /\ IsExempt(m, MyApTitle) => Exempt(m)
         /\ ~IsExempt(m, MyApTitle) => Counts(m)
  BY DEF MyApTitle, Exempt, Counts

\* However a message is executed, that is logged.
LEMMA ExecutionIsLogged ==
  ASSUME NEW m,
         IgnoreResponse(m) \/ RefuseEpsem(m) \/ Serve(m)
  PROVE  log' = Append(log, [request |-> available, at |-> time, outcome |-> "executed"])
  <1>1. CASE IgnoreResponse(m)
    BY <1>1 DEF IgnoreResponse, Note
  <1>2. CASE RefuseEpsem(m)
    BY <1>2 DEF RefuseEpsem, Note
  <1>3. CASE Serve(m)
    <2>1. PICK done : ServeSilently(m, done) \/ ServeAndAnswer(m, done)
      BY <1>3 DEF Serve
    <2>2. CASE ServeSilently(m, done)
      BY <2>2 DEF ServeSilently, Note
    <2>3. CASE ServeAndAnswer(m, done)
      BY <2>3 DEF ServeAndAnswer, Note
    <2>4. QED
      BY <2>1, <2>2, <2>3
  <1>4. QED
    BY <1>1, <1>2, <1>3

\* The turn of the loop that finds a message.
LEMMA HandleMessageSteps ==
  ASSUME Types, HandleMessage
  PROVE  /\ available' = Nobody
         /\ Drops(available) \/ ExecutesExempt(available) \/ ExecutesAndAdds(available)
  <1> DEFINE m == Request(available)
  <1>1. /\ available \in Understood /\ available' = Nobody /\ time' = time
        /\ DropDuplicate(m) \/ (~IsDuplicate(m) /\ (IgnoreResponse(m) \/ RefuseEpsem(m) \/ Serve(m)))
        /\ receiveHistory' = NextHistory(receiveHistory, m, time, MyApTitle)
    BY DEF HandleMessage, Types
  <1> HIDE DEF m
  <1>2. CASE DropDuplicate(m)
    <2>1. /\ ~IsExempt(m, MyApTitle) /\ Hits(receiveHistory, m, time) # {}
          /\ log' = Append(log, [request |-> available, at |-> time, outcome |-> "dropped"])
      BY <1>2 DEF DropDuplicate, IsDuplicate, IsMessageAlreadyReceived, Note
    <2>2. Drops(available)
      BY <1>1, <2>1 DEF Drops, LogsAs, NextHistory, m
    <2>3. QED
      BY <1>1, <2>2
  <1>3. CASE ~IsDuplicate(m) /\ (IgnoreResponse(m) \/ RefuseEpsem(m) \/ Serve(m))
    <2>1. LogsAs(available, "executed")
      BY <1>1, <1>3, ExecutionIsLogged DEF LogsAs
    <2>2. CASE IsExempt(m, MyApTitle)
      BY <1>1, <2>1, <2>2, OneOfTwoTitles DEF ExecutesExempt, NextHistory, m
    <2>3. CASE ~IsExempt(m, MyApTitle)
      <3>1. Hits(receiveHistory, m, time) = {}
        BY <1>3, <2>3 DEF IsDuplicate, IsMessageAlreadyReceived
      <3>2. QED
        BY <1>1, <2>1, <2>3, <3>1, OneOfTwoTitles DEF ExecutesAndAdds, NextHistory, m
    <2>4. QED
      BY <2>2, <2>3
  <1>4. QED
    BY <1>1, <1>2, <1>3

\* Every step: what a step that logs nothing leaves alone, or one of the above.
LEMMA Steps ==
  ASSUME Types, [Next]_vars
  PROVE  /\ available' \in Understood \cup {Nobody}
         /\ \/ \E r \in Understood :
                  Drops(r) \/ Refuses(r) \/ ExecutesExempt(r) \/ ExecutesAndAdds(r)
            \/ UNCHANGED <<log, receiveHistory>> /\ time' \in {time, time + 1}
  <1>1. ASSUME NEW r \in Requests, ReceiveMessage(r)
        PROVE  /\ available' \in Understood
               /\ UNCHANGED <<log, receiveHistory, time>>
    BY <1>1 DEF ReceiveMessage, Received
  <1>2. ASSUME NEW r \in Requests, RefuseInsecure(r)
        PROVE  UNCHANGED available /\ r \in Understood /\ Refuses(r)
    BY <1>2 DEF RefuseInsecure, Received, Refuses, LogsAs, Note
  <1>3. CASE HandleMessage
    <2>1. available \in Understood
      BY <1>3 DEF HandleMessage, Types
    <2>2. QED
      BY <1>3, <2>1, HandleMessageSteps
  <1>4. CASE SendMessageComplete
    BY <1>4 DEF SendMessageComplete, Types
  <1>5. CASE Tick
    BY <1>5 DEF Tick, Types
  <1>6. CASE UNCHANGED vars
    BY <1>6 DEF vars, Types
  <1>7. QED
    BY <1>1, <1>2, <1>3, <1>4, <1>5, <1>6 DEF Next, Types

-----------------------------------------------------------------------------
(* The invariant *)

\* A server that was started has an empty ring and an empty log.
LEMMA InitInv == Init => Types /\ HistoryIsLogged /\ LoggedIsHeld
  <1>1. NoHistory \in Histories
    BY HistoryAssumption DEF NoHistory, Histories, Entries
  <1>2. \A ii \in 1..HistorySize : NoHistory.history[ii].receptionTime = 0
    BY DEF NoHistory, Empty
  <1>3. QED
    BY <1>1, <1>2 DEF Init, Types, HistoryIsLogged, LoggedIsHeld

\* A step that keeps the history but for what expires keeps the invariant,
\* unless it logs an execution that is not exempt.
LEMMA SweepingKeepsInv ==
  ASSUME Types, Types', HistoryIsLogged, LoggedIsHeld, time' >= time,
         receiveHistory'.addIndex = receiveHistory.addIndex,
         \A ii \in 1..HistorySize :
            \/ receiveHistory'.history[ii] = receiveHistory.history[ii]
            \/ /\ receiveHistory'.history[ii] = Empty
               /\ IsExpired(receiveHistory.history[ii], time'),
         \/ log' = log
         \/ \E x \in LogEntry :
               /\ log' = Append(log, x)
               /\ x.outcome = "executed" => Exempt(Request(x.request))
  PROVE  HistoryIsLogged' /\ LoggedIsHeld'
  <1>1. /\ DOMAIN log \subseteq DOMAIN log'
        /\ \A i \in DOMAIN log :
              /\ log'[i] = log[i] /\ log[i] \in LogEntry
              /\ Cardinality(Noted(i)) \in Nat /\ Cardinality(Noted(i)') \in Nat
              /\ Cardinality(Noted(i)) <= Cardinality(Noted(i)')
        /\ \A i \in DOMAIN log' \ DOMAIN log :
              log'[i].outcome = "executed" => Exempt(Request(log'[i].request))
    <2>1. CASE log' = log
      <3>1. \A i \in DOMAIN log : i \in Nat /\ log[i] \in LogEntry
        BY DEF Types
      <3>2. \A i \in DOMAIN log : Cardinality(Noted(i)) \in Nat
        BY <3>1, NotedIsFinite DEF Types
      <3>3. \A i : Noted(i)' = Noted(i)
        BY <2>1 DEF Noted, NotedBetween, Executed, Asked
      <3>4. QED
        BY <2>1, <3>1, <3>2, <3>3
    <2>2. CASE log' # log
      <3> PICK x \in LogEntry :
             /\ log' = Append(log, x)
             /\ x.outcome = "executed" => Exempt(Request(x.request))
        BY <2>2
      <3>1. \A i \in DOMAIN log : i \in Nat
        BY DEF Types
      <3>2. \A i \in DOMAIN log : Cardinality(Noted(i)) \in Nat
        BY <3>1, NotedIsFinite DEF Types
      <3>3. \A i \in DOMAIN log :
               /\ Cardinality(Noted(i)') \in Nat
               /\ Cardinality(Noted(i)) <= Cardinality(Noted(i)')
        BY NotedGrows DEF Types
      <3>4. /\ Len(log) \in Nat /\ DOMAIN log = 1..Len(log)
            /\ DOMAIN log' = 1..(Len(log) + 1)
            /\ log'[Len(log) + 1] = x
            /\ \A i \in DOMAIN log : log'[i] = log[i] /\ log[i] \in LogEntry
        BY LogGrows DEF Types
      <3>5. 1..(Len(log) + 1) = 1..Len(log) \cup {Len(log) + 1}
        <4>1. Len(log) \in Nat
          BY <3>4
        <4>2. QED
          BY ONLY <4>1
      <3>6. DOMAIN log' = DOMAIN log \cup {Len(log) + 1}
        BY <3>4, <3>5
      <3>7. \A i \in DOMAIN log' \ DOMAIN log :
               log'[i].outcome = "executed" => Exempt(Request(log'[i].request))
        BY <3>4, <3>6
      <3>8. \A i \in DOMAIN log :
               /\ log'[i] = log[i] /\ log[i] \in LogEntry
               /\ Cardinality(Noted(i)) \in Nat /\ Cardinality(Noted(i)') \in Nat
               /\ Cardinality(Noted(i)) <= Cardinality(Noted(i)')
        BY <3>2, <3>3, <3>4
      <3>9. QED
        BY <3>6, <3>7, <3>8
    <2>3. QED
      BY <2>1, <2>2
  <1>2. HistoryIsLogged'
    <2>1. SUFFICES ASSUME NEW ii \in 1..HistorySize,
                          receiveHistory'.history[ii].receptionTime # 0
                   PROVE  \E i \in DOMAIN log' :
                             Executed(i)' /\ receiveHistory'.history[ii] = Logged(i)'
      BY DEF HistoryIsLogged
    <2>2. receiveHistory'.history[ii] = receiveHistory.history[ii]
      BY <2>1 DEF Empty
    <2>3. PICK i \in DOMAIN log : Executed(i) /\ receiveHistory.history[ii] = Logged(i)
      BY <2>1, <2>2 DEF HistoryIsLogged
    <2>4. i \in DOMAIN log' /\ Executed(i)' /\ Logged(i)' = Logged(i)
      BY <1>1, <2>3 DEF Executed, Logged
    <2>5. QED
      BY <2>2, <2>3, <2>4
  <1>3. LoggedIsHeld'
    <2>1. SUFFICES ASSUME NEW i \in DOMAIN log',
                          Executed(i)', ~Exempt(Asked(i)'),
                          ~IsExpired(Logged(i)', time'),
                          Cardinality(Noted(i)') < HistorySize
                   PROVE  \E ii \in 1..HistorySize :
                             /\ Age(receiveHistory', ii) <= Cardinality(Noted(i)')
                             /\ receiveHistory'.history[ii] = Logged(i)'
      BY DEF LoggedIsHeld, Exempt, IsExpired, Age
    <2>2. i \in DOMAIN log
      BY <1>1, <2>1 DEF Executed, Asked
    <2>3. /\ Executed(i) /\ ~Exempt(Asked(i)) /\ Logged(i)' = Logged(i)
          /\ log[i] \in LogEntry
      BY <1>1, <2>1, <2>2 DEF Executed, Asked, Logged
    <2>4. Logged(i).receptionTime \in Nat
      BY <2>3, EntryFields DEF Logged, LogEntry
    <2>5. ~IsExpired(Logged(i), time)
      BY <2>1, <2>3, <2>4, HistoryAssumption DEF IsExpired, Types
    <2>6. Cardinality(Noted(i)) < HistorySize
      BY <1>1, <2>1, <2>2, HistoryAssumption
    <2>7. PICK ii \in 1..HistorySize :
             /\ Age(receiveHistory, ii) <= Cardinality(Noted(i))
             /\ receiveHistory.history[ii] = Logged(i)
      BY <2>2, <2>3, <2>5, <2>6 DEF LoggedIsHeld
    <2>8. receiveHistory'.history[ii] = Logged(i)'
      BY <2>1, <2>3, <2>7
    <2>9. Age(receiveHistory', ii) = Age(receiveHistory, ii) /\ Age(receiveHistory, ii) \in Int
      BY HistoryAssumption DEF Age, Types, Histories
    <2>10. QED
      BY <1>1, <2>2, <2>7, <2>8, <2>9
  <1>4. QED
    BY <1>2, <1>3

\* The request that is executed takes the youngest place; of those the ring still
\* owes a place, none is in the oldest.
LEMMA AddingKeepsInv ==
  ASSUME Types, Types', HistoryIsLogged, LoggedIsHeld, NEW r \in Understood,
         ExecutesAndAdds(r)
  PROVE  HistoryIsLogged' /\ LoggedIsHeld'
  <1> PICK n \in Nat : n = Len(log) + 1
    BY DEF Types
  <1> DEFINE x == [request |-> r, at |-> time, outcome |-> "executed"]
             h == Swept(receiveHistory, Request(r), time)
  <1>1. /\ time \in Nat /\ time' = time /\ r \in Requests /\ x \in LogEntry
        /\ log' = Append(log, x) /\ Counts(Request(r))
        /\ receiveHistory' = Added(h, Request(r), time)
    BY DEF ExecutesAndAdds, LogsAs, Types, LogEntry, Understood
  <1>2. /\ h \in Histories /\ h.addIndex = receiveHistory.addIndex
        /\ h.addIndex \in 1..HistorySize
        /\ \A ii \in 1..HistorySize :
              \/ h.history[ii] = receiveHistory.history[ii]
              \/ h.history[ii] = Empty /\ IsExpired(receiveHistory.history[ii], time)
    <2>1. receiveHistory \in Histories
      BY DEF Types
    <2>2. h \in Histories /\ h.addIndex = receiveHistory.addIndex
      BY <1>1, <2>1, SweptKeeps
    <2>3. QED
      BY <1>1, <2>1, <2>2, SweptKeeps DEF Histories
  <1>3. /\ n \in Nat /\ DOMAIN log = 1..(n - 1) /\ DOMAIN log' = 1..n /\ Len(log') = n
        /\ log'[n] = x
        /\ \A i \in DOMAIN log :
              /\ i \in DOMAIN log' /\ i \in Nat
              /\ log'[i] = log[i] /\ log[i] \in LogEntry
              /\ Executed(i)' = Executed(i) /\ Asked(i)' = Asked(i) /\ Logged(i)' = Logged(i)
    <2>1. /\ log \in Seq(LogEntry) /\ Len(log) \in Nat /\ DOMAIN log = 1..Len(log)
      BY DEF Types
    <2>2. /\ DOMAIN log' = 1..(Len(log) + 1) /\ log'[Len(log) + 1] = x
          /\ Len(log') = Len(log) + 1
          /\ \A i \in DOMAIN log : log'[i] = log[i] /\ log[i] \in LogEntry
      BY <1>1, <2>1, LogGrows
    <2>3. \A i \in DOMAIN log : i \in Nat /\ i \in DOMAIN log'
      BY <2>1, <2>2
    <2>4. \A i \in DOMAIN log :
             Executed(i)' = Executed(i) /\ Asked(i)' = Asked(i) /\ Logged(i)' = Logged(i)
      BY <2>2 DEF Executed, Asked, Logged
    <2>5. QED
      BY <2>1, <2>2, <2>3, <2>4
  <1>4. Executed(n)' /\ Logged(n)' = Entry(r, time) /\ n \in DOMAIN log'
    <2>1. x.request = r /\ x.at = time /\ x.outcome = "executed"
      OBVIOUS
    <2>2. n \in Nat /\ n # 0 /\ DOMAIN log' = 1..n /\ log'[n] = x
      BY <1>3 DEF Types
    <2> HIDE DEF x
    <2>3. n \in DOMAIN log'
      BY <2>2
    <2>4. Executed(n)' /\ Logged(n)' = Entry(r, time)
      BY <2>1, <2>2 DEF Executed, Logged
    <2>5. QED
      BY <2>3, <2>4
  <1> HIDE DEF h
  <1>5. /\ receiveHistory'.history[h.addIndex] = Entry(r, time)
        /\ Age(receiveHistory', h.addIndex) = 0
        /\ Age(h, h.addIndex) = HistorySize - 1
        /\ \A ii \in 1..HistorySize : ii # h.addIndex =>
              /\ receiveHistory'.history[ii] = h.history[ii]
              /\ Age(receiveHistory', ii) = Age(h, ii) + 1
    BY <1>1, <1>2, AddedAges
  <1>6. HistoryIsLogged'
    <2>1. SUFFICES ASSUME NEW ii \in 1..HistorySize,
                          receiveHistory'.history[ii].receptionTime # 0
                   PROVE  \E i \in DOMAIN log' :
                             Executed(i)' /\ receiveHistory'.history[ii] = Logged(i)'
      BY DEF HistoryIsLogged
    <2>2. CASE ii = h.addIndex
      <3>1. Executed(n)' /\ receiveHistory'.history[ii] = Logged(n)' /\ n \in DOMAIN log'
        BY <1>4, <1>5, <2>2
      <3>2. QED
        BY <3>1
    <2>3. CASE ii # h.addIndex
      <3>1. receiveHistory'.history[ii] = receiveHistory.history[ii]
        BY <1>2, <1>5, <2>1, <2>3 DEF Empty
      <3>2. PICK i \in DOMAIN log : Executed(i) /\ receiveHistory.history[ii] = Logged(i)
        BY <2>1, <3>1 DEF HistoryIsLogged
      <3>3. QED
        BY <1>3, <3>1, <3>2
    <2>4. QED
      BY <2>2, <2>3
  <1>7. LoggedIsHeld'
    <2>1. SUFFICES ASSUME NEW i \in DOMAIN log',
                          Executed(i)', ~Exempt(Asked(i)'),
                          ~IsExpired(Logged(i)', time'),
                          Cardinality(Noted(i)') < HistorySize
                   PROVE  \E ii \in 1..HistorySize :
                             /\ Age(receiveHistory', ii) <= Cardinality(Noted(i)')
                             /\ receiveHistory'.history[ii] = Logged(i)'
      BY DEF LoggedIsHeld, Exempt, IsExpired, Age
    <2>2. CASE i = n
      <3>1. Noted(i)' = {}
        BY <1>3, <2>2 DEF Noted, NotedBetween
      <3>2. Cardinality(Noted(i)') = 0
        BY <3>1, FS_EmptySet
      <3>3. /\ h.addIndex \in 1..HistorySize
            /\ Age(receiveHistory', h.addIndex) <= Cardinality(Noted(i)')
            /\ receiveHistory'.history[h.addIndex] = Logged(i)'
        <4>1. Logged(n)' = Logged(i)'
          BY <2>2
        <4>2. QED
          BY <1>2, <1>4, <1>5, <3>2, <4>1
      <3>4. QED
        BY <3>3
    <2>3. CASE i # n
      <3>1. i \in DOMAIN log /\ i \in Nat
        BY <1>3, <2>3
      <3>2. /\ Executed(i) /\ ~Exempt(Asked(i)) /\ ~IsExpired(Logged(i), time)
            /\ Logged(i)' = Logged(i) /\ log[i] \in LogEntry
        BY <1>1, <1>3, <2>1, <3>1
      <3>3. Cardinality(Noted(i)) \in Nat /\ Cardinality(Noted(i)') = Cardinality(Noted(i)) + 1
        BY <1>1, <3>1, NotedGrows, NotedIsFinite DEF Types
      <3>4. PICK ii \in 1..HistorySize :
               /\ Age(receiveHistory, ii) <= Cardinality(Noted(i))
               /\ receiveHistory.history[ii] = Logged(i)
        BY <2>1, <3>1, <3>2, <3>3, HistoryAssumption DEF LoggedIsHeld
      <3>5. h.history[ii] = Logged(i) /\ Age(h, ii) = Age(receiveHistory, ii)
        BY <1>2, <3>2, <3>4 DEF Age
      <3>6. ii # h.addIndex
        BY <1>5, <2>1, <3>3, <3>4, <3>5, HistoryAssumption
      <3>7. Age(h, ii) \in Int
        BY <1>2, HistoryAssumption DEF Age
      <3>8. QED
        BY <1>5, <3>2, <3>3, <3>4, <3>5, <3>6, <3>7
    <2>4. QED
      BY <2>2, <2>3
  <1>8. QED
    BY <1>6, <1>7

\* A step that logs: what is logged is an entry of the log.
LEMMA TypesStep ==
  ASSUME Types, [Next]_vars
  PROVE  Types' /\ time' >= time
  <1>1. CASE \E r \in Understood :
                Drops(r) \/ Refuses(r) \/ ExecutesExempt(r) \/ ExecutesAndAdds(r)
    <2>1. PICK r \in Understood :
             Drops(r) \/ Refuses(r) \/ ExecutesExempt(r) \/ ExecutesAndAdds(r)
      BY <1>1
    <2>2. r \in Requests /\ time \in Nat /\ receiveHistory \in Histories /\ log \in Seq(LogEntry)
      BY DEF Types, Understood
    <2>3. PICK outcome \in {"executed", "dropped", "refused"} : LogsAs(r, outcome)
      BY <2>1 DEF Drops, Refuses, ExecutesExempt, ExecutesAndAdds
    <2>4. log' \in Seq(LogEntry) /\ time' \in Nat /\ time' >= time
      <3>1. [request |-> r, at |-> time, outcome |-> outcome] \in LogEntry
        BY <2>2 DEF LogEntry
      <3>2. QED
        BY <2>2, <2>3, <3>1 DEF LogsAs
    <2>5. receiveHistory' \in Histories
      <3>1. Swept(receiveHistory, Request(r), time) \in Histories
        BY <2>2, SweptKeeps
      <3>2. Added(Swept(receiveHistory, Request(r), time), Request(r), time) \in Histories
        BY <2>2, <3>1, AddedAges
      <3>3. QED
        BY <2>1, <2>2, <3>1, <3>2 DEF Drops, Refuses, ExecutesExempt, ExecutesAndAdds
    <2>6. available' \in Understood \cup {Nobody}
      BY Steps
    <2>7. QED
      BY <2>4, <2>5, <2>6 DEF Types
  <1>2. CASE UNCHANGED <<log, receiveHistory>> /\ time' \in {time, time + 1}
    <2>1. available' \in Understood \cup {Nobody}
      BY Steps
    <2>2. QED
      BY <1>2, <2>1 DEF Types
  <1>3. QED
    BY <1>1, <1>2, Steps

\* Every step of the server keeps the invariant.
LEMMA NextKeepsInv ==
  ASSUME Inv, [Next]_vars
  PROVE  Inv'
  <1>1. Types /\ Types' /\ HistoryIsLogged /\ LoggedIsHeld /\ time' >= time
    BY TypesStep DEF Inv
  <1>2. /\ time \in Nat /\ receiveHistory \in Histories
        /\ \A r \in Understood, outcome \in {"executed", "dropped", "refused"} :
              [request |-> r, at |-> time, outcome |-> outcome] \in LogEntry
    BY <1>1 DEF Types, LogEntry, Understood
  <1>3. ASSUME NEW r \in Understood, Drops(r)
        PROVE  HistoryIsLogged' /\ LoggedIsHeld'
    <2>1. /\ receiveHistory'.addIndex = receiveHistory.addIndex
          /\ \A ii \in 1..HistorySize :
                \/ receiveHistory'.history[ii] = receiveHistory.history[ii]
                \/ /\ receiveHistory'.history[ii] = Empty
                   /\ IsExpired(receiveHistory.history[ii], time')
      BY <1>2, <1>3, SweptKeeps DEF Drops, LogsAs
    <2>2. \E x \in LogEntry :
             /\ log' = Append(log, x)
             /\ x.outcome = "executed" => Exempt(Request(x.request))
      <3>1. [request |-> r, at |-> time, outcome |-> "dropped"] \in LogEntry
        BY <1>2
      <3>2. QED
        BY <1>3, <3>1 DEF Drops, LogsAs
    <2>3. QED
      BY <1>1, <2>1, <2>2, SweepingKeepsInv
  <1>4. ASSUME NEW r \in Understood, Refuses(r)
        PROVE  HistoryIsLogged' /\ LoggedIsHeld'
    <2>1. \E x \in LogEntry :
             /\ log' = Append(log, x)
             /\ x.outcome = "executed" => Exempt(Request(x.request))
      <3>1. [request |-> r, at |-> time, outcome |-> "refused"] \in LogEntry
        BY <1>2
      <3>2. QED
        BY <1>4, <3>1 DEF Refuses, LogsAs
    <2>2. QED
      BY <1>1, <1>4, <2>1, SweepingKeepsInv DEF Refuses
  <1>5. ASSUME NEW r \in Understood, ExecutesExempt(r)
        PROVE  HistoryIsLogged' /\ LoggedIsHeld'
    <2>1. \E x \in LogEntry :
             /\ log' = Append(log, x)
             /\ x.outcome = "executed" => Exempt(Request(x.request))
      <3>1. [request |-> r, at |-> time, outcome |-> "executed"] \in LogEntry
        BY <1>2
      <3>2. QED
        BY <1>5, <3>1 DEF ExecutesExempt, LogsAs
    <2>2. QED
      BY <1>1, <1>5, <2>1, SweepingKeepsInv DEF ExecutesExempt
  <1>6. ASSUME NEW r \in Understood, ExecutesAndAdds(r)
        PROVE  HistoryIsLogged' /\ LoggedIsHeld'
    BY <1>1, <1>6, AddingKeepsInv
  <1>7. CASE UNCHANGED <<log, receiveHistory>> /\ time' \in {time, time + 1}
    BY <1>1, <1>7, SweepingKeepsInv DEF Inv
  <1>8. QED
    BY <1>1, <1>3, <1>4, <1>5, <1>6, <1>7, Steps DEF Inv

\* The receive history of a server holds what it says: each entry in use is that
\* of a request that was executed, and a request is in it until its entry expires
\* or as many others as it has places have come (c1222al_receiveHistory.c).
THEOREM ServerInvariant == Spec => []Inv
  <1>1. Init => Inv
    BY InitInv DEF Inv
  <1>2. Inv /\ [Next]_vars => Inv'
    BY NextKeepsInv
  <1>3. QED
    BY <1>1, <1>2, PTL DEF Spec

-----------------------------------------------------------------------------
(* What is dropped *)

\* A request that is dropped was executed, for the same caller, lately.
LEMMA DroppedWasExecuted ==
  ASSUME Inv, NEW r \in Understood, Drops(r)
  PROVE  \E i \in DOMAIN log :
            /\ Executed(i)
            /\ SameCaller(Asked(i), Request(r))
            /\ CallingApInvocationId(Asked(i)) = CallingApInvocationId(Request(r))
            /\ time - (IF log[i].at = 0 THEN 1 ELSE log[i].at) <= HistoryLifetime
  <1>1. receiveHistory \in Histories /\ time \in Nat
    BY DEF Inv, Types
  <1>2. PICK ii \in Hits(receiveHistory, Request(r), time) : TRUE
    BY DEF Drops
  <1> DEFINE e == receiveHistory.history[ii]
  <1>3. /\ ii \in 1..HistorySize
        /\ e.receptionTime # 0
        /\ ~IsExpired(e, time)
        /\ Matches(e, CallingApInvocationId(Request(r)), ValidCallingApTitle(Request(r)))
    BY <1>1, <1>2, FoundIsHeld
  <1>4. PICK i \in DOMAIN log : Executed(i) /\ e = Logged(i)
    BY <1>3 DEF Inv, HistoryIsLogged
  <1>5. log[i].request \in Requests /\ log[i].at \in Nat
    <2>1. log[i] \in LogEntry
      BY DEF Inv, Types
    <2>2. QED
      BY <2>1 DEF LogEntry
  <1>6. /\ e.receptionTime = IF log[i].at = 0 THEN 1 ELSE log[i].at
        /\ e.sequence = CallingApInvocationId(Asked(i))
        /\ e.callingApTitle = ValidCallingApTitle(Asked(i))
    BY <1>4, <1>5, EntryFields DEF Logged, Asked
  <1> HIDE DEF e
  <1>7. SameCaller(Asked(i), Request(r))
    BY <1>3, <1>6 DEF Matches, SameCaller, SameTitle
  <1>8. CallingApInvocationId(Asked(i)) = CallingApInvocationId(Request(r))
    BY <1>3, <1>6 DEF Matches
  <1>9. e.receptionTime \in Nat
    BY <1>5, <1>6
  <1>10. time - e.receptionTime <= HistoryLifetime
    BY <1>1, <1>3, <1>9, HistoryAssumption DEF IsExpired
  <1>11. QED
    BY <1>4, <1>6, <1>7, <1>8, <1>10

\* ... and the log keeps saying so.
LEMMA NextKeepsDropped ==
  ASSUME Inv, OnlyDuplicatesAreDropped, [Next]_vars
  PROVE  OnlyDuplicatesAreDropped'
  <1>1. Types
    BY DEF Inv
  <1>2. CASE log' = log
    BY <1>2 DEF OnlyDuplicatesAreDropped, Executed, Asked
  <1>3. ASSUME NEW r \in Understood, NEW outcome \in {"executed", "dropped", "refused"},
               LogsAs(r, outcome), outcome = "dropped" => Drops(r)
        PROVE  OnlyDuplicatesAreDropped'
    <2>1. PICK n \in Nat : n = Len(log) + 1
      BY <1>1 DEF Types
    <2> DEFINE x == [request |-> r, at |-> time, outcome |-> outcome]
    <2>2. x \in LogEntry /\ log \in Seq(LogEntry) /\ log' = Append(log, x)
      BY <1>1, <1>3 DEF Types, LogEntry, LogsAs, Understood
    <2>3. /\ DOMAIN log = 1..(n - 1) /\ DOMAIN log' = 1..n /\ log'[n] = x
          /\ \A i \in DOMAIN log : log'[i] = log[i]
      BY <2>1, <2>2, LogGrows
    <2>4. SUFFICES ASSUME NEW j \in DOMAIN log', log'[j].outcome = "dropped"
                   PROVE  \E i \in 1..(j - 1) :
                             /\ Executed(i)'
                             /\ SameCaller(Asked(i)', Asked(j)')
                             /\ CallingApInvocationId(Asked(i)') = CallingApInvocationId(Asked(j)')
                             /\ log'[j].at - (IF log'[i].at = 0 THEN 1 ELSE log'[i].at)
                                   <= HistoryLifetime
      BY DEF OnlyDuplicatesAreDropped, SameCaller, CallingApInvocationId
    <2>5. CASE j = n
      <3>1. log'[j].request = r /\ log'[j].at = time /\ outcome = "dropped"
        BY <2>3, <2>4, <2>5
      <3>2. PICK i \in DOMAIN log :
               /\ Executed(i)
               /\ SameCaller(Asked(i), Request(r))
               /\ CallingApInvocationId(Asked(i)) = CallingApInvocationId(Request(r))
               /\ time - (IF log[i].at = 0 THEN 1 ELSE log[i].at) <= HistoryLifetime
        BY <1>3, <3>1, DroppedWasExecuted
      <3>3. /\ i \in 1..(j - 1)
            /\ Executed(i)' /\ Asked(i)' = Asked(i) /\ log'[i] = log[i]
            /\ Asked(j)' = Request(r)
        BY <2>3, <2>5, <3>1, <3>2 DEF Executed, Asked
      <3>4. QED
        BY <3>1, <3>2, <3>3
    <2>6. CASE j # n
      <3>1. j \in DOMAIN log /\ j \in Nat /\ log'[j] = log[j]
        BY <2>3, <2>6
      <3>2. PICK i \in 1..(j - 1) :
               /\ Executed(i)
               /\ SameCaller(Asked(i), Asked(j))
               /\ CallingApInvocationId(Asked(i)) = CallingApInvocationId(Asked(j))
               /\ log[j].at - (IF log[i].at = 0 THEN 1 ELSE log[i].at) <= HistoryLifetime
        BY <2>4, <3>1 DEF OnlyDuplicatesAreDropped
      <3>3. i \in DOMAIN log
        BY <2>3, <3>1
      <3>4. /\ Executed(i)' /\ Asked(i)' = Asked(i) /\ log'[i] = log[i] /\ Asked(j)' = Asked(j)
        BY <2>3, <3>1, <3>2, <3>3 DEF Executed, Asked
      <3>5. QED
        BY <3>1, <3>2, <3>4
    <2>7. QED
      BY <2>5, <2>6
  <1>4. ASSUME NEW r \in Understood,
               Drops(r) \/ Refuses(r) \/ ExecutesExempt(r) \/ ExecutesAndAdds(r)
        PROVE  OnlyDuplicatesAreDropped'
    <2>1. CASE Drops(r)
      BY <1>3, <2>1 DEF Drops
    <2>2. CASE Refuses(r)
      BY <1>3, <2>2 DEF Refuses
    <2>3. CASE ExecutesExempt(r) \/ ExecutesAndAdds(r)
      <3>1. LogsAs(r, "executed")
        BY <2>3 DEF ExecutesExempt, ExecutesAndAdds
      <3>2. QED
        BY <1>3, <3>1
    <2>4. QED
      BY <1>4, <2>1, <2>2, <2>3
  <1>5. QED
    BY <1>1, <1>2, <1>4, Steps

\* No caller is silenced by what another sent, or by what it sent long ago: only
\* a duplicate of a request that was executed is dropped.
THEOREM ServerOnlyDuplicatesAreDropped == Spec => []OnlyDuplicatesAreDropped
  <1>1. Init => OnlyDuplicatesAreDropped
    BY DEF Init, OnlyDuplicatesAreDropped
  <1>2. Inv /\ OnlyDuplicatesAreDropped /\ [Next]_vars => OnlyDuplicatesAreDropped'
    BY NextKeepsDropped
  <1>3. QED
    BY <1>1, <1>2, ServerInvariant, PTL DEF Spec

-----------------------------------------------------------------------------
(* What is executed *)

\* What makes it lawful to execute a request that was executed before.
Lawful(i, j) ==
    \/ Exempt(Asked(i))
    \/ CallingApTitle(Asked(i)) # None /\ MakeRelativeFrom(CallingApTitle(Asked(i))) = None
    \/ log[j].at - log[i].at > HistoryLifetime
    \/ Cardinality(NotedBetween(i, j)) >= HistorySize

\* A request that is executed again without being exempt was not held.
LEMMA ExecutedWasNotHeld ==
  ASSUME Inv, NEW r \in Understood, ExecutesAndAdds(r), NEW i \in DOMAIN log,
         Executed(i), log[i].request = r, ~Exempt(Asked(i)),
         CallingApTitle(Asked(i)) = None \/ MakeRelativeFrom(CallingApTitle(Asked(i))) # None
  PROVE  time - log[i].at > HistoryLifetime \/ Cardinality(Noted(i)) >= HistorySize
  <1>1. /\ receiveHistory \in Histories /\ time \in Nat
        /\ log \in Seq(LogEntry) /\ log[i] \in LogEntry /\ i \in Nat
    BY DEF Inv, Types
  <1>2. log[i].at \in Nat /\ r \in Requests /\ Cardinality(Noted(i)) \in Nat
    BY <1>1, NotedIsFinite DEF LogEntry, Understood
  <1>3. Logged(i) = Entry(r, log[i].at) /\ Asked(i) = Request(r)
    BY DEF Logged, Asked
  <1>4. CASE IsExpired(Logged(i), time)
    <2>1. Logged(i).receptionTime = IF log[i].at = 0 THEN 1 ELSE log[i].at
      BY <1>2, <1>3, EntryFields
    <2>2. time - (IF log[i].at = 0 THEN 1 ELSE log[i].at) > HistoryLifetime
      BY <1>4, <2>1 DEF IsExpired
    <2>3. QED
      BY <1>1, <1>2, <2>2, HistoryAssumption
  <1>5. CASE ~IsExpired(Logged(i), time) /\ Cardinality(Noted(i)) < HistorySize
    <2>1. PICK ii \in 1..HistorySize : receiveHistory.history[ii] = Logged(i)
      BY <1>5 DEF Inv, LoggedIsHeld
    <2>2. Hits(receiveHistory, Request(r), time) # {}
      BY <1>1, <1>2, <1>3, <1>5, <2>1, HeldIsFound
    <2>3. QED
      BY <2>2 DEF ExecutesAndAdds
  <1>6. QED
    BY <1>2, <1>4, <1>5, HistoryAssumption

\* A step that logs keeps what was lawful, and adds nothing else.
LEMMA NextKeepsNoRepeat ==
  ASSUME Inv, NoRepeat, [Next]_vars
  PROVE  NoRepeat'
  <1>1. Types
    BY DEF Inv
  <1>2. CASE log' = log
    BY <1>2 DEF NoRepeat, Executed, Asked, NotedBetween
  <1>3. ASSUME NEW r \in Understood, NEW outcome \in {"executed", "dropped", "refused"},
               LogsAs(r, outcome),
               outcome = "executed" => ExecutesExempt(r) \/ ExecutesAndAdds(r)
        PROVE  NoRepeat'
    <2>1. PICK n \in Nat : n = Len(log) + 1
      BY <1>1 DEF Types
    <2> DEFINE x == [request |-> r, at |-> time, outcome |-> outcome]
    <2>2. x \in LogEntry /\ log \in Seq(LogEntry) /\ log' = Append(log, x)
      BY <1>1, <1>3 DEF Types, LogEntry, LogsAs, Understood
    <2>3. /\ DOMAIN log = 1..(n - 1) /\ DOMAIN log' = 1..n /\ log'[n] = x
          /\ \A i \in DOMAIN log : log'[i] = log[i]
      BY <2>1, <2>2, LogGrows
    <2>4. SUFFICES ASSUME NEW i \in DOMAIN log', NEW j \in DOMAIN log',
                          i < j, Executed(i)', Executed(j)', log'[i].request = log'[j].request
                   PROVE  Lawful(i, j)'
      BY DEF NoRepeat, Lawful
    <2>5. /\ i \in DOMAIN log /\ i \in Nat /\ j \in Nat /\ j <= n
          /\ Executed(i) /\ log'[i] = log[i] /\ Asked(i)' = Asked(i)
      BY <2>3, <2>4 DEF Executed, Asked
    <2>6. NotedBetween(i, j)' = NotedBetween(i, j)
      <3>1. \A k \in (i + 1)..(j - 1) : log'[k] = log[k]
        BY <2>3, <2>5
      <3>2. QED
        BY <3>1 DEF NotedBetween, Executed, Asked
    <2>7. CASE j # n
      <3>1. j \in DOMAIN log /\ log'[j] = log[j]
        BY <2>3, <2>5, <2>7
      <3>2. Lawful(i, j)
        BY <2>4, <2>5, <3>1 DEF NoRepeat, Lawful, Executed
      <3>3. QED
        BY <2>5, <2>6, <3>1, <3>2 DEF Lawful, Exempt
    <2>8. CASE j = n
      <3>1. /\ log[i].request = r /\ outcome = "executed" /\ log'[j].at = time
            /\ Asked(i) = Request(r)
        BY <2>3, <2>4, <2>5, <2>8 DEF Executed, Asked
      <3>2. NotedBetween(i, j) = Noted(i)
        BY <2>1, <2>8 DEF Noted
      <3>3. CASE ExecutesExempt(r)
        BY <2>5, <3>1, <3>3 DEF ExecutesExempt, Lawful, Exempt
      <3>4. CASE ExecutesAndAdds(r)
        <4>1. \/ Exempt(Asked(i))
              \/ CallingApTitle(Asked(i)) # None /\ MakeRelativeFrom(CallingApTitle(Asked(i))) = None
              \/ time - log[i].at > HistoryLifetime
              \/ Cardinality(Noted(i)) >= HistorySize
          BY <2>5, <3>1, <3>4, ExecutedWasNotHeld
        <4>2. QED
          BY <2>5, <2>6, <3>1, <3>2, <4>1 DEF Lawful, Exempt
      <3>5. QED
        BY <1>3, <3>1, <3>3, <3>4
    <2>9. QED
      BY <2>7, <2>8
  <1>4. ASSUME NEW r \in Understood,
               Drops(r) \/ Refuses(r) \/ ExecutesExempt(r) \/ ExecutesAndAdds(r)
        PROVE  NoRepeat'
    <2>1. CASE Drops(r)
      BY <1>3, <2>1 DEF Drops
    <2>2. CASE Refuses(r)
      BY <1>3, <2>2 DEF Refuses
    <2>3. CASE ExecutesExempt(r) \/ ExecutesAndAdds(r)
      <3>1. LogsAs(r, "executed")
        BY <2>3 DEF ExecutesExempt, ExecutesAndAdds
      <3>2. QED
        BY <1>3, <2>3, <3>1
    <2>4. QED
      BY <1>4, <2>1, <2>2, <2>3
  <1>5. QED
    BY <1>1, <1>2, <1>4, Steps

\* A request that is received again is executed again only if it is exempt, its
\* title is not one the history can compare, its entry has expired, or as many
\* others as the ring has places have come.
THEOREM ServerNoRepeat == Spec => []NoRepeat
  <1>1. Init => NoRepeat
    BY DEF Init, NoRepeat
  <1>2. Inv /\ NoRepeat /\ [Next]_vars => NoRepeat'
    BY NextKeepsNoRepeat
  <1>3. QED
    BY <1>1, <1>2, ServerInvariant, PTL DEF Spec

-----------------------------------------------------------------------------
(* The title of an answer *)

Standards == {"2006", "2008"}

\* A title that fits its buffer, in the form of a table.
IsOwnTitle(t) == t \in ApTitles /\ ValidFor(t, "0d")

\* The title this node is configured with is one.
LEMMA OwnTitleIsValid == IsOwnTitle(OwnApTitle)
BY NodeAssumption DEF IsOwnTitle, OwnApTitle

\* The fields of a title in the form of a table, and its encoded length.
LEMMA TitleFields ==
    ASSUME NEW t \in ApTitles
    PROVE  /\ t = [tag |-> t.tag, root |-> t.root, name |-> t.name]
           /\ t.root \in {"2006", "2008", "other", "none"} /\ t.tag \in {"06", "0d", "80", "00"}
           /\ t.name \in Seq(Nat) /\ Len(t.name) \in Nat
           /\ RootLength(t.root) \in 0..8
           /\ EncodedLength(t) \in Nat
<1>1. /\ t = [tag |-> t.tag, root |-> t.root, name |-> t.name] /\ t.tag \in {"06", "0d", "80", "00"}
      /\ t.root \in {"2006", "2008", "other", "none"} /\ t.name \in Seq(Nat)
    BY DEF ApTitles
<1>2. Len(t.name) \in Nat
    BY <1>1
<1>3. RootLength(t.root) \in 0..8
    BY <1>1 DEF RootLength
<1> QED
    BY <1>1, <1>2, <1>3 DEF EncodedLength

\* MakeRelativeFrom gives a title that fits, or none.
LEMMA MadeRelative ==
    ASSUME NEW t, IsOwnTitle(t), MakeRelativeFrom(t) # None
    PROVE  IsOwnTitle(MakeRelativeFrom(t))
<1>1. /\ t \in ApTitles /\ t.tag \in {"06", "0d"} /\ EncodedLength(t) \in 3..ApTitleLength
    BY DEF IsOwnTitle, ValidFor
<1>2. ApTitleLength \in Nat
    BY NodeAssumption
<1>3. CASE t.tag = "0d"
    <2>1. MakeRelativeFrom(t) = [t EXCEPT !.tag = "0d"]
        BY <1>3 DEF MakeRelativeFrom, IsAbsolute
    <2>2. [t EXCEPT !.tag = "0d"] = t
        BY <1>1, <1>3, TitleFields
    <2> QED
        BY <2>1, <2>2
<1>4. CASE t.tag = "06"
    <2>1. /\ MakeRelativeFrom(t) = Relative("0d", t.name)
          /\ t.root \in {"2006", "2008"} /\ t.name # <<>>
        BY <1>4 DEF MakeRelativeFrom, IsAbsolute
    <2>2. Len(t.name) \in Nat /\ Len(t.name) # 0 /\ t.name \in Seq(Nat)
        <3>1. t.name \in Seq(Nat) /\ Len(t.name) \in Nat
            BY <1>1, TitleFields
        <3> QED
            BY <2>1, <3>1
    <2>3. Relative("0d", t.name) \in ApTitles
        BY <2>2 DEF Relative, ApTitles
    <2>4. EncodedLength(Relative("0d", t.name)) = 2 + Len(t.name)
        BY <2>2 DEF Relative, EncodedLength, RootLength
    <2>5. EncodedLength(t) >= 2 + Len(t.name)
        BY <1>1, <2>2, TitleFields DEF EncodedLength
    <2>6. EncodedLength(Relative("0d", t.name)) \in 3..ApTitleLength
        BY <1>1, <1>2, <2>2, <2>4, <2>5
    <2>7. Relative("0d", t.name).tag = "0d"
        BY DEF Relative
    <2> QED
        BY <2>1, <2>3, <2>6, <2>7 DEF IsOwnTitle, ValidFor
<1> QED
    BY <1>1, <1>3, <1>4

\* MakeAbsoluteFrom gives a title that fits.
LEMMA MadeAbsolute ==
    ASSUME NEW t, IsOwnTitle(t), NEW standard \in Standards, CanBeAbsolute(t, standard)
    PROVE  IsOwnTitle(MakeAbsoluteFrom(t, standard))
<1>1. /\ t \in ApTitles /\ t.tag \in {"06", "0d"} /\ EncodedLength(t) \in 3..ApTitleLength
    BY DEF IsOwnTitle, ValidFor
<1>2. ApTitleLength \in Nat
    BY NodeAssumption
<1>3. CASE t.tag = "06"
    BY <1>3 DEF MakeAbsoluteFrom, IsAbsolute
<1>4. CASE t.tag = "0d"
    <2>1. /\ MakeAbsoluteFrom(t, standard) = Absolute(standard, t.name)
          /\ 2 + RootLength(standard) + Len(t.name) <= ApTitleLength
        BY <1>4 DEF MakeAbsoluteFrom, CanBeAbsolute, IsAbsolute
    <2>2. Len(t.name) \in Nat /\ t.name \in Seq(Nat)
        BY <1>1, TitleFields
    <2>3. RootLength(standard) \in {7, 8}
        BY DEF RootLength, Standards
    <2>4. Absolute(standard, t.name) \in ApTitles
        BY <2>2 DEF Absolute, ApTitles, Standards
    <2>5. EncodedLength(Absolute(standard, t.name)) = 2 + RootLength(standard) + Len(t.name)
        BY DEF Absolute, EncodedLength
    <2>6. EncodedLength(Absolute(standard, t.name)) \in 3..ApTitleLength
        BY <1>2, <2>1, <2>2, <2>3, <2>5
    <2>7. Absolute(standard, t.name).tag = "06"
        BY DEF Absolute
    <2> QED
        BY <2>1, <2>4, <2>6, <2>7 DEF IsOwnTitle, ValidFor
<1> QED
    BY <1>1, <1>3, <1>4

\* What this node calls itself in an answer is a title, whoever asks.
LEMMA AnswerTitleIsValid ==
    ASSUME NEW m, m.standard \in Standards
    PROVE  IsOwnTitle(AnswerApTitle(m))
BY OwnTitleIsValid, MadeRelative, MadeAbsolute DEF AnswerApTitle

-----------------------------------------------------------------------------
(* The parts of a message *)

\* Elements that come in the order of a standard, and what they take at most.
Part(s, order, low, high, n) ==
    /\ IsList(s) /\ InOrder(s, order, low, high)
    /\ LengthOf(s) \in 0..n

\* None or one element with a tag.
Piece(p, tag, n) ==
    p = <<>> \/ \E length \in 0..n : \E value : p = <<Element(tag, length, value)>>

\* The place of a tag, and the length of an element with it.
PlacedIn(order, tag, low, high, n, k) ==
    /\ low \in Nat /\ high \in Nat
    /\ tag \in ToSet(order) /\ Place(order, tag) \in (low + 1)..high
    /\ n \in 0..125 /\ k = n + 2

\* An element with a tag of the order is a part of a message.
LEMMA PieceIsPart ==
    ASSUME NEW p, NEW tag, NEW n, Piece(p, tag, n),
           NEW order, NEW low, NEW high, NEW k, PlacedIn(order, tag, low, high, n, k)
    PROVE  Part(p, order, low, high, k)
<1> USE DEF PlacedIn
<1>1. CASE p = <<>>
    BY <1>1, EmptyList, NoneInOrder DEF Part
<1>2. ASSUME NEW length \in 0..n, NEW value, p = <<Element(tag, length, value)>>
      PROVE  Part(p, order, low, high, k)
    <2> DEFINE e == Element(tag, length, value)
    <2>1. IsElement(e) /\ e.tag = tag /\ e.length = length
        BY ElementFields
    <2> HIDE DEF e
    <2>2. IsList(<<e>>) /\ LengthOf(<<e>>) = Encoded(length)
        BY <2>1, ListOfOne
    <2>3. Encoded(length) = length + 2
        BY EncodedIsNatural
    <2>4. InOrder(<<e>>, order, low, high)
        BY <2>1, OneInOrder
    <2>5. LengthOf(<<e>>) \in 0..k
        BY <2>2, <2>3
    <2>6. p = <<e>>
        BY <1>2 DEF e
    <2> QED
        BY <2>2, <2>4, <2>5, <2>6 DEF Part
<1> QED
    BY <1>1, <1>2 DEF Piece

Adjoin(low, middle, high, a, b, c) ==
    /\ low \in Nat /\ middle \in Nat /\ high \in Nat /\ low <= middle /\ middle <= high
    /\ a \in Nat /\ b \in Nat /\ c = a + b

\* Two parts, the second behind the first in the order, are a part.
LEMMA PartsJoin ==
    ASSUME NEW s, NEW t, NEW order, NEW low, NEW middle, NEW high, NEW a, NEW b, NEW c,
           Adjoin(low, middle, high, a, b, c),
           Part(s, order, low, middle, a), Part(t, order, middle, high, b)
    PROVE  /\ Part(s \o t, order, low, high, c)
           /\ ToSet(s \o t) = ToSet(s) \cup ToSet(t)
<1> USE DEF Adjoin
<1>1. /\ IsList(s) /\ InOrder(s, order, low, middle) /\ LengthOf(s) \in 0..a
      /\ IsList(t) /\ InOrder(t, order, middle, high) /\ LengthOf(t) \in 0..b
    BY DEF Part
<1>2. IsList(s \o t) /\ LengthOf(s \o t) = LengthOf(s) + LengthOf(t)
    BY <1>1, ListsConcat
<1>3. InOrder(s \o t, order, low, high)
    BY <1>1, ConcatInOrder
<1>4. LengthOf(s \o t) \in 0..c
    BY <1>1, <1>2
<1>5. ToSet(s \o t) = ToSet(s) \cup ToSet(t)
    BY <1>1, ElementsOfConcat
<1> QED
    BY <1>2, <1>3, <1>4, <1>5 DEF Part

-----------------------------------------------------------------------------
(* The elements before the user information *)

\* A message that can be answered, and the authentication value of an answer.
Answerable(m) ==
    /\ m.standard \in Standards
    /\ HasTag(m, "A8")
    /\ HasTag(m, "A6") => ValidateACSEFormat(CallingApTitle(m), m.standard)

IsAuth(m, auth) ==
    auth = <<>> \/ \E length \in 0..25 : \E value :
                      auth = <<Element("AC", length, value)>> /\ value.standard = m.standard

IdLengths(standard) == IF standard = "2006" THEN {2} ELSE {3, 4}

\* What an element of an answer to a message says.
HeaderElement(m, auth, id, e) ==
    \/ e.tag = "A1" /\ e.value = m.standard
    \/ e.tag = "A2" /\ HasTag(m, "A6") /\ e.value = CallingApTitle(m)
    \/ e.tag = "A6" /\ ValidateACSEFormat(e.value, m.standard)
    \/ e.tag = "A7" /\ e.value.standard = m.standard
    \/ e.tag = "AC" /\ auth = <<e>> /\ e.value.standard = m.standard
    \/ e.tag = "A4" /\ e.value = [id |-> CallingApInvocationId(m)]
                    /\ e.length \in IdLengths(m.standard)
    \/ e.tag = "A8" /\ e.value = [id |-> id] /\ e.length \in IdLengths(m.standard)

\* Elements of an answer with one tag.
HeaderPiece(m, auth, id, p, tag, n) ==
    Piece(p, tag, n) /\ \A e \in ToSet(p) : e.tag = tag /\ HeaderElement(m, auth, id, e)

\* One element of an answer.
LEMMA OnePiece ==
    ASSUME NEW m, NEW auth, NEW id, NEW tag, NEW n \in Nat, NEW length \in 0..n, NEW value,
           HeaderElement(m, auth, id, Element(tag, length, value))
    PROVE  HeaderPiece(m, auth, id, <<Element(tag, length, value)>>, tag, n)
<1>1. Piece(<<Element(tag, length, value)>>, tag, n)
    BY DEF Piece
<1>2. Element(tag, length, value).tag = tag
    BY DEF Element
<1> QED
    BY <1>1, <1>2, ElementsOfOne DEF HeaderPiece

\* An element that is left out.
LEMMA NoPiece ==
    ASSUME NEW m, NEW auth, NEW id, NEW tag, NEW n
    PROVE  HeaderPiece(m, auth, id, <<>>, tag, n)
BY ElementsOfOne DEF HeaderPiece, Piece

\* The application context is that of the request.
LEMMA ContextPiece ==
    ASSUME NEW m, Answerable(m), NEW auth, NEW id
    PROVE  HeaderPiece(m, auth, id, CopyContext(m), "A1", 9)
<1> DEFINE length == IF m.standard = "2006" THEN 7 ELSE 9
           e == Element("A1", length, m.standard)
<1>1. HeaderElement(m, auth, id, e)
    BY DEF HeaderElement, Element
<1>2. HeaderPiece(m, auth, id, <<e>>, "A1", 9)
    BY <1>1, OnePiece
<1> QED
    BY <1>2, NoPiece DEF CopyContext, SetContext

\* A title as an element holds it.
LEMMA TitleElement ==
    ASSUME NEW standard \in Standards, NEW t, IsOwnTitle(t), NEW tag
    PROVE  \E value : /\ SetApTitle(standard, t, tag) = <<Element(tag, EncodedLength(t), value)>>
                      /\ ValidateACSEFormat(value, standard)
<1> DEFINE value == IF standard = "2008" /\ t.tag = "0d" THEN [t EXCEPT !.tag = "80"] ELSE t
<1>1. /\ t \in ApTitles /\ t.tag \in {"06", "0d"} /\ EncodedLength(t) \in 3..ApTitleLength
    BY DEF IsOwnTitle, ValidFor
<1>2. SetApTitle(standard, t, tag) = <<Element(tag, EncodedLength(t), value)>>
    BY DEF SetApTitle
<1>3. ValidateACSEFormat(value, standard)
    <2>1. CASE standard = "2008" /\ t.tag = "0d"
        <3>1. value = [tag |-> "80", root |-> t.root, name |-> t.name]
            BY <1>1, <2>1, TitleFields
        <3> HIDE DEF value
        <3>2. value.tag = "80" /\ EncodedLength(value) = EncodedLength(t)
            BY <3>1 DEF EncodedLength
        <3> QED
            BY <1>1, <2>1, <3>2 DEF ValidateACSEFormat, ValidFor, RelativeTag
    <2>2. CASE ~(standard = "2008" /\ t.tag = "0d")
        <3>1. value = t
            BY <2>2
        <3> QED
            BY <1>1, <2>2, <3>1 DEF ValidateACSEFormat, ValidFor, RelativeTag, Standards
    <2> QED
        BY <2>1, <2>2
<1> QED
    BY <1>2, <1>3

\* The called ApTitle is the calling one of the request, when it has one.
LEMMA CalledTitlePiece ==
    ASSUME NEW m, Answerable(m), NEW auth, NEW id
    PROVE  /\ HeaderPiece(m, auth, id, CopyCalledApTitle(m), "A2", ApTitleLength)
           /\ HasTag(m, "A6") => \E e : CopyCalledApTitle(m) = <<e>>
<1> DEFINE t == CallingApTitle(m)
<1>1. ASSUME HasTag(m, "A6")
      PROVE  /\ HeaderPiece(m, auth, id, CopyCalledApTitle(m), "A2", ApTitleLength)
             /\ \E e : CopyCalledApTitle(m) = <<e>>
    <2> DEFINE e == Element("A2", EncodedLength(t), t)
    <2>1. /\ t.tag \in {"06", RelativeTag(m.standard)} /\ EncodedLength(t) \in 3..ApTitleLength
          /\ ApTitleLength \in Nat
        BY <1>1, NodeAssumption DEF Answerable, ValidateACSEFormat, ValidFor
    <2>2. ~(m.standard = "2008" /\ t.tag = "0d")
        BY <2>1 DEF RelativeTag
    <2>3. CopyCalledApTitle(m) = <<e>>
        BY <1>1, <2>2 DEF CopyCalledApTitle, SetApTitle
    <2>4. HeaderElement(m, auth, id, e)
        BY <1>1 DEF HeaderElement, Element
    <2>5. EncodedLength(t) \in 0..ApTitleLength
        BY <2>1
    <2> HIDE DEF t
    <2>6. HeaderPiece(m, auth, id, <<e>>, "A2", ApTitleLength)
        BY <2>1, <2>4, <2>5, OnePiece
    <2> QED
        BY <2>3, <2>6
<1>2. CASE ~HasTag(m, "A6")
    BY <1>2, NoPiece DEF CopyCalledApTitle
<1> QED
    BY <1>1, <1>2

\* The calling ApTitle is the one the answer is given.
LEMMA OwnTitlePiece ==
    ASSUME NEW m, Answerable(m), NEW auth, NEW id, NEW t, IsOwnTitle(t)
    PROVE  /\ HeaderPiece(m, auth, id, SetApTitle(m.standard, t, "A6"), "A6", ApTitleLength)
           /\ \E e : SetApTitle(m.standard, t, "A6") = <<e>>
<1>1. PICK value : /\ SetApTitle(m.standard, t, "A6") = <<Element("A6", EncodedLength(t), value)>>
                   /\ ValidateACSEFormat(value, m.standard)
    BY TitleElement DEF Answerable
<1>2. EncodedLength(t) \in 0..ApTitleLength /\ ApTitleLength \in Nat
    BY NodeAssumption DEF IsOwnTitle, ValidFor
<1>3. HeaderElement(m, auth, id, Element("A6", EncodedLength(t), value))
    BY <1>1 DEF HeaderElement, Element
<1> QED
    BY <1>1, <1>2, <1>3, OnePiece

\* The AE qualifier keeps the test and notification flags of the request.
LEMMA QualifierPiece ==
    ASSUME NEW m, Answerable(m), NEW auth, NEW id
    PROVE  HeaderPiece(m, auth, id, CopyQualifier(m), "A7", 3)
<1> DEFINE value == [standard  |-> m.standard,
                     qualifier |-> CallingAeQualifier(m) \cap {"test", "notification"}]
           e == Element("A7", 3, value)
<1>1. HeaderElement(m, auth, id, e)
    <2>1. e.tag = "A7" /\ e.value = value
        BY DEF Element
    <2>2. value.standard = m.standard
        OBVIOUS
    <2> HIDE DEF e, value
    <2> QED
        BY <2>1, <2>2 DEF HeaderElement
<1>2. HeaderPiece(m, auth, id, <<e>>, "A7", 3)
    BY <1>1, OnePiece
<1> QED
    BY <1>2, NoPiece DEF CopyQualifier, SetCallingAeQualifier

\* The authentication value.
LEMMA AuthPiece ==
    ASSUME NEW m, Answerable(m), NEW auth, IsAuth(m, auth), NEW id
    PROVE  HeaderPiece(m, auth, id, auth, "AC", 25)
<1>1. ASSUME NEW length \in 0..25, NEW value, auth = <<Element("AC", length, value)>>,
             value.standard = m.standard
      PROVE  HeaderPiece(m, auth, id, auth, "AC", 25)
    <2>1. HeaderElement(m, auth, id, Element("AC", length, value))
        BY <1>1, ElementFields DEF HeaderElement
    <2> QED
        BY <1>1, <2>1, OnePiece
<1> QED
    BY <1>1, NoPiece DEF IsAuth

\* The called id is the calling one of the request, and the calling id that of the answer.
LEMMA IdPieces ==
    ASSUME NEW m, Answerable(m), NEW auth, NEW id
    PROVE  /\ HeaderPiece(m, auth, id, CopyCalledId(m), "A4", 4)
           /\ \E e : CopyCalledId(m) = <<e>>
           /\ HeaderPiece(m, auth, id, SetApInvocationId(m.standard, id, "A8"), "A8", 4)
           /\ \E e : SetApInvocationId(m.standard, id, "A8") = <<e>>
<1> DEFINE L(n) == IF m.standard = "2006" THEN 2 ELSE IF n < 256 THEN 3 ELSE 4
           n4   == CallingApInvocationId(m)
           e4   == Element("A4", L(n4), [id |-> n4])
           e8   == Element("A8", L(id), [id |-> id])
<1>1. CopyCalledId(m) = <<e4>> /\ SetApInvocationId(m.standard, id, "A8") = <<e8>>
    BY DEF CopyCalledId, SetApInvocationId, Answerable
<1>2. \A n : L(n) \in IdLengths(m.standard) /\ L(n) \in 0..4
    BY DEF IdLengths
<1> HIDE DEF n4, L
<1>3. HeaderElement(m, auth, id, e4)
    BY <1>2 DEF HeaderElement, Element, n4
<1>4. HeaderElement(m, auth, id, e8)
    BY <1>2 DEF HeaderElement, Element
<1> QED
    BY <1>1, <1>2, <1>3, <1>4, OnePiece

\* The order of a standard, and its places before that of the user information.
TagOrder(standard) == IF standard = "2006" THEN tagOrder2006 ELSE tagOrder2008
Before(standard)   == IF standard = "2006" THEN 8 ELSE 9

HeaderLength == 59 + 2 * ApTitleLength

\* What the elements before the user information are.
IsHeader(m, auth, id, h) ==
    /\ IsMessage(h) /\ h.standard = m.standard
    /\ Part(h.elements, TagOrder(m.standard), 0, Before(m.standard), HeaderLength)
    /\ \A e \in ToSet(h.elements) : HeaderElement(m, auth, id, e)
    /\ \A tag \in {"A4", "A6", "A8"} : Has(h.elements, tag)
    /\ Has(h.elements, "A2") <=> HasTag(m, "A6")
    /\ Has(h.elements, "AC") <=> auth # <<>>

\* The pieces, each with the elements it may hold.
Pieces(m, auth, id, a1, a2, a4, a6, a7, a8) ==
    /\ HeaderPiece(m, auth, id, a1, "A1", 9)
    /\ HeaderPiece(m, auth, id, a2, "A2", ApTitleLength)
    /\ HeaderPiece(m, auth, id, a4, "A4", 4)
    /\ HeaderPiece(m, auth, id, a6, "A6", ApTitleLength)
    /\ HeaderPiece(m, auth, id, a7, "A7", 3)
    /\ HeaderPiece(m, auth, id, a8, "A8", 4)
    /\ HeaderPiece(m, auth, id, auth, "AC", 25)

\* The pieces in the order in which the 2006 standard has them.
LEMMA Joined2006 ==
    ASSUME NEW m, NEW auth, NEW id, NEW a1, NEW a2, NEW a4, NEW a6, NEW a7, NEW a8,
           Pieces(m, auth, id, a1, a2, a4, a6, a7, a8)
    PROVE  LET s == (a1 \o a2) \o ((((a6 \o a7) \o auth) \o a4) \o a8)
           IN  /\ Part(s, tagOrder2006, 0, 8, HeaderLength)
               /\ ToSet(s) = ToSet(a1) \cup ToSet(a2) \cup ToSet(a4) \cup ToSet(a6)
                                \cup ToSet(a7) \cup ToSet(a8) \cup ToSet(auth)
<1>1. ApTitleLength \in 1..22
    BY NodeAssumption
<1> PICK L \in 1..22 : L = ApTitleLength
    BY <1>1
<1> PICK t \in Nat : t = L + 2
    OBVIOUS
<1> PICK l1 \in Nat, l2 \in Nat, l3 \in Nat, l4 \in Nat, l5 \in Nat, l6 \in Nat :
        /\ l1 = 11 + t /\ l2 = t + 5 /\ l3 = l2 + 27
        /\ l4 = l3 + 6 /\ l5 = l4 + 6 /\ l6 = l1 + l5
    OBVIOUS
<1> PICK o : o = tagOrder2006
    OBVIOUS
<1>2. /\ {"A1", "A2", "A6", "A7", "AC", "A4", "A8"} \subseteq ToSet(o)
      /\ Place(o, "A1") = 1 /\ Place(o, "A2") = 2 /\ Place(o, "A6") = 3 /\ Place(o, "A7") = 4
      /\ Place(o, "AC") = 6 /\ Place(o, "A4") = 7 /\ Place(o, "A8") = 8
    BY Places2006
<1>3. /\ Piece(a1, "A1", 9) /\ Piece(a2, "A2", L) /\ Piece(a6, "A6", L)
      /\ Piece(a7, "A7", 3) /\ Piece(auth, "AC", 25) /\ Piece(a4, "A4", 4) /\ Piece(a8, "A8", 4)
    BY DEF Pieces, HeaderPiece
<1>4. /\ Part(a1, o, 0, 1, 11) /\ Part(a2, o, 1, 2, t) /\ Part(a6, o, 2, 3, t)
      /\ Part(a7, o, 3, 4, 5) /\ Part(auth, o, 4, 6, 27) /\ Part(a4, o, 6, 7, 6)
      /\ Part(a8, o, 7, 8, 6)
    <2>1. /\ PlacedIn(o, "A1", 0, 1, 9, 11) /\ PlacedIn(o, "A2", 1, 2, L, t)
          /\ PlacedIn(o, "A6", 2, 3, L, t) /\ PlacedIn(o, "A7", 3, 4, 3, 5)
          /\ PlacedIn(o, "AC", 4, 6, 25, 27) /\ PlacedIn(o, "A4", 6, 7, 4, 6)
          /\ PlacedIn(o, "A8", 7, 8, 4, 6)
        BY <1>2 DEF PlacedIn
    <2> QED
        BY <1>3, <2>1, PieceIsPart
<1> DEFINE g == a1 \o a2
           h == a6 \o a7
<1>5. Part(g, o, 0, 2, l1) /\ ToSet(g) = ToSet(a1) \cup ToSet(a2)
    <2>1. Adjoin(0, 1, 2, 11, t, l1)
        BY DEF Adjoin
    <2> QED
        BY <2>1, <1>4, PartsJoin
<1>6. Part(h, o, 2, 4, l2) /\ ToSet(h) = ToSet(a6) \cup ToSet(a7)
    <2>1. Adjoin(2, 3, 4, t, 5, l2)
        BY DEF Adjoin
    <2> QED
        BY <2>1, <1>4, PartsJoin
<1> DEFINE b == h \o auth
<1> HIDE DEF g, h
<1>7. Part(b, o, 2, 6, l3) /\ ToSet(b) = ToSet(h) \cup ToSet(auth)
    <2>1. Adjoin(2, 4, 6, l2, 27, l3)
        BY DEF Adjoin
    <2> QED
        BY <2>1, <1>4, <1>6, PartsJoin
<1> DEFINE c == b \o a4
<1> HIDE DEF b
<1>8. Part(c, o, 2, 7, l4) /\ ToSet(c) = ToSet(b) \cup ToSet(a4)
    <2>1. Adjoin(2, 6, 7, l3, 6, l4)
        BY DEF Adjoin
    <2> QED
        BY <2>1, <1>4, <1>7, PartsJoin
<1> DEFINE d == c \o a8
<1> HIDE DEF c
<1>9. Part(d, o, 2, 8, l5) /\ ToSet(d) = ToSet(c) \cup ToSet(a8)
    <2>1. Adjoin(2, 7, 8, l4, 6, l5)
        BY DEF Adjoin
    <2> QED
        BY <2>1, <1>4, <1>8, PartsJoin
<1> DEFINE f == g \o d
<1> HIDE DEF d
<1>10. Part(f, o, 0, 8, l6) /\ ToSet(f) = ToSet(g) \cup ToSet(d)
    <2>1. Adjoin(0, 2, 8, l1, l5, l6)
        BY DEF Adjoin
    <2> QED
        BY <2>1, <1>5, <1>9, PartsJoin
<1>11. ToSet(f) = ToSet(a1) \cup ToSet(a2) \cup ToSet(a4) \cup ToSet(a6)
                    \cup ToSet(a7) \cup ToSet(a8) \cup ToSet(auth)
    BY <1>5, <1>6, <1>7, <1>8, <1>9, <1>10
<1>12. Part(f, tagOrder2006, 0, 8, HeaderLength)
    BY <1>10 DEF HeaderLength
<1> QED
    BY <1>11, <1>12 DEF f, d, c, b, g, h

\* The pieces in the order in which the 2008 standard has them.
LEMMA Joined2008 ==
    ASSUME NEW m, NEW auth, NEW id, NEW a1, NEW a2, NEW a4, NEW a6, NEW a7, NEW a8,
           Pieces(m, auth, id, a1, a2, a4, a6, a7, a8)
    PROVE  LET s == (a1 \o a2) \o (((a4 \o (a6 \o a7)) \o a8) \o auth)
           IN  /\ Part(s, tagOrder2008, 0, 9, HeaderLength)
               /\ ToSet(s) = ToSet(a1) \cup ToSet(a2) \cup ToSet(a4) \cup ToSet(a6)
                                \cup ToSet(a7) \cup ToSet(a8) \cup ToSet(auth)
<1>1. ApTitleLength \in 1..22
    BY NodeAssumption
<1> PICK L \in 1..22 : L = ApTitleLength
    BY <1>1
<1> PICK t \in Nat : t = L + 2
    OBVIOUS
<1> PICK l1 \in Nat, l2 \in Nat, l3 \in Nat, l4 \in Nat, l5 \in Nat, l6 \in Nat :
        /\ l1 = 11 + t /\ l2 = t + 5 /\ l3 = 6 + l2
        /\ l4 = l3 + 6 /\ l5 = l4 + 27 /\ l6 = l1 + l5
    OBVIOUS
<1> PICK o : o = tagOrder2008
    OBVIOUS
<1>2. /\ {"A1", "A2", "A6", "A7", "AC", "A4", "A8"} \subseteq ToSet(o)
      /\ Place(o, "A1") = 1 /\ Place(o, "A2") = 2 /\ Place(o, "A4") = 4 /\ Place(o, "A6") = 5
      /\ Place(o, "A7") = 6 /\ Place(o, "A8") = 7 /\ Place(o, "AC") = 9
    BY Places2008
<1>3. /\ Piece(a1, "A1", 9) /\ Piece(a2, "A2", L) /\ Piece(a6, "A6", L)
      /\ Piece(a7, "A7", 3) /\ Piece(auth, "AC", 25) /\ Piece(a4, "A4", 4) /\ Piece(a8, "A8", 4)
    BY DEF Pieces, HeaderPiece
<1>4. /\ Part(a1, o, 0, 1, 11) /\ Part(a2, o, 1, 2, t) /\ Part(a4, o, 2, 4, 6)
      /\ Part(a6, o, 4, 5, t) /\ Part(a7, o, 5, 6, 5) /\ Part(a8, o, 6, 7, 6)
      /\ Part(auth, o, 7, 9, 27)
    <2>1. /\ PlacedIn(o, "A1", 0, 1, 9, 11) /\ PlacedIn(o, "A2", 1, 2, L, t)
          /\ PlacedIn(o, "A4", 2, 4, 4, 6) /\ PlacedIn(o, "A6", 4, 5, L, t)
          /\ PlacedIn(o, "A7", 5, 6, 3, 5) /\ PlacedIn(o, "A8", 6, 7, 4, 6)
          /\ PlacedIn(o, "AC", 7, 9, 25, 27)
        BY <1>2 DEF PlacedIn
    <2> QED
        BY <1>3, <2>1, PieceIsPart
<1> DEFINE g == a1 \o a2
           h == a6 \o a7
<1>5. Part(g, o, 0, 2, l1) /\ ToSet(g) = ToSet(a1) \cup ToSet(a2)
    <2>1. Adjoin(0, 1, 2, 11, t, l1)
        BY DEF Adjoin
    <2> QED
        BY <2>1, <1>4, PartsJoin
<1>6. Part(h, o, 4, 6, l2) /\ ToSet(h) = ToSet(a6) \cup ToSet(a7)
    <2>1. Adjoin(4, 5, 6, t, 5, l2)
        BY DEF Adjoin
    <2> QED
        BY <2>1, <1>4, PartsJoin
<1> DEFINE b == a4 \o h
<1> HIDE DEF g, h
<1>7. Part(b, o, 2, 6, l3) /\ ToSet(b) = ToSet(a4) \cup ToSet(h)
    <2>1. Adjoin(2, 4, 6, 6, l2, l3)
        BY DEF Adjoin
    <2> QED
        BY <2>1, <1>4, <1>6, PartsJoin
<1> DEFINE c == b \o a8
<1> HIDE DEF b
<1>8. Part(c, o, 2, 7, l4) /\ ToSet(c) = ToSet(b) \cup ToSet(a8)
    <2>1. Adjoin(2, 6, 7, l3, 6, l4)
        BY DEF Adjoin
    <2> QED
        BY <2>1, <1>4, <1>7, PartsJoin
<1> DEFINE d == c \o auth
<1> HIDE DEF c
<1>9. Part(d, o, 2, 9, l5) /\ ToSet(d) = ToSet(c) \cup ToSet(auth)
    <2>1. Adjoin(2, 7, 9, l4, 27, l5)
        BY DEF Adjoin
    <2> QED
        BY <2>1, <1>4, <1>8, PartsJoin
<1> DEFINE f == g \o d
<1> HIDE DEF d
<1>10. Part(f, o, 0, 9, l6) /\ ToSet(f) = ToSet(g) \cup ToSet(d)
    <2>1. Adjoin(0, 2, 9, l1, l5, l6)
        BY DEF Adjoin
    <2> QED
        BY <2>1, <1>5, <1>9, PartsJoin
<1>11. ToSet(f) = ToSet(a1) \cup ToSet(a2) \cup ToSet(a4) \cup ToSet(a6)
                    \cup ToSet(a7) \cup ToSet(a8) \cup ToSet(auth)
    BY <1>5, <1>6, <1>7, <1>8, <1>9, <1>10
<1>12. Part(f, tagOrder2008, 0, 9, HeaderLength)
    BY <1>10 DEF HeaderLength
<1> QED
    BY <1>11, <1>12 DEF f, d, c, b, g, h

\* The elements an answer has before its user information: those of the request it
\* repeats, this node's title, its id, and the authentication value.
LEMMA HeaderIs ==
    ASSUME NEW m, Answerable(m), NEW title, IsOwnTitle(title), NEW auth, IsAuth(m, auth), NEW id
    PROVE  IsHeader(m, auth, id, Header(m, title, auth, id))
<1> DEFINE a1 == CopyContext(m)
           a2 == CopyCalledApTitle(m)
           a4 == CopyCalledId(m)
           a6 == SetApTitle(m.standard, title, "A6")
           a7 == CopyQualifier(m)
           a8 == SetApInvocationId(m.standard, id, "A8")
           s2006 == (a1 \o a2) \o ((((a6 \o a7) \o auth) \o a4) \o a8)
           s2008 == (a1 \o a2) \o (((a4 \o (a6 \o a7)) \o a8) \o auth)
           h == Header(m, title, auth, id)
           s == h.elements
<1>1. Pieces(m, auth, id, a1, a2, a4, a6, a7, a8)
    BY ContextPiece, CalledTitlePiece, OwnTitlePiece, QualifierPiece, AuthPiece, IdPieces
    DEF Pieces
<1>2. /\ \E e : a6 = <<e>>
      /\ \E e : a4 = <<e>>
      /\ \E e : a8 = <<e>>
      /\ HasTag(m, "A6") => \E e : a2 = <<e>>
      /\ ~HasTag(m, "A6") => a2 = <<>>
      /\ auth # <<>> => \E e : auth = <<e>>
    BY OwnTitlePiece, IdPieces, CalledTitlePiece DEF CopyCalledApTitle, IsAuth
<1>3. h = Message(m.standard, IF m.standard = "2006" THEN s2006 ELSE s2008)
    BY DEF Header
<1> HIDE DEF a1, a2, a4, a6, a7, a8
<1>4. /\ s = (IF m.standard = "2006" THEN s2006 ELSE s2008)
      /\ h.standard = m.standard
      /\ h = Message(m.standard, s)
    <2> HIDE DEF h, s2006, s2008
    <2> QED
        BY <1>3, MessageFields
<1>5. /\ Part(s, TagOrder(m.standard), 0, Before(m.standard), HeaderLength)
      /\ ToSet(s) = ToSet(a1) \cup ToSet(a2) \cup ToSet(a4) \cup ToSet(a6)
                       \cup ToSet(a7) \cup ToSet(a8) \cup ToSet(auth)
    <2> HIDE DEF h
    <2>1. CASE m.standard = "2006"
        <3>1. s = s2006
            BY <1>4, <2>1
        <3> HIDE DEF s
        <3> QED
            BY <1>1, <2>1, <3>1, Joined2006 DEF TagOrder, Before
    <2>2. CASE m.standard # "2006"
        <3>1. s = s2008
            BY <1>4, <2>2
        <3> HIDE DEF s
        <3> QED
            BY <1>1, <2>2, <3>1, Joined2008 DEF TagOrder, Before
    <2> QED
        BY <2>1, <2>2
<1> HIDE DEF h, s2006, s2008
<1>6. IsList(s) /\ IsMessage(h)
    BY <1>4, <1>5 DEF Part, IsMessage
<1>7. \A e \in ToSet(s) : HeaderElement(m, auth, id, e)
    BY <1>1, <1>5 DEF Pieces, HeaderPiece
<1> HIDE DEF s
<1>8. \A tag : Has(s, tag) <=> \E e \in ToSet(s) : e.tag = tag
    BY <1>6, FoundInElements
<1>9. Has(s, "A6") /\ Has(s, "A4") /\ Has(s, "A8")
    <2>1. \A x, tag : HeaderPiece(m, auth, id, x, tag, ApTitleLength) /\ (\E e : x = <<e>>)
                         => \E e \in ToSet(x) : e.tag = tag
        BY ElementsOfOne DEF HeaderPiece
    <2>2. \A x, tag : HeaderPiece(m, auth, id, x, tag, 4) /\ (\E e : x = <<e>>)
                         => \E e \in ToSet(x) : e.tag = tag
        BY ElementsOfOne DEF HeaderPiece
    <2> QED
        BY <1>1, <1>2, <1>5, <1>8, <2>1, <2>2 DEF Pieces
<1>10. Has(s, "A2") <=> HasTag(m, "A6")
    <2>1. HasTag(m, "A6") => \E e \in ToSet(a2) : e.tag = "A2"
        BY <1>1, <1>2, ElementsOfOne DEF Pieces, HeaderPiece
    <2>2. ASSUME NEW e \in ToSet(s), e.tag = "A2" PROVE HasTag(m, "A6")
        BY <1>7, <2>2 DEF HeaderElement
    <2> QED
        BY <1>5, <1>8, <2>1, <2>2
<1>11. Has(s, "AC") <=> auth # <<>>
    <2>1. auth # <<>> => \E e \in ToSet(auth) : e.tag = "AC"
        BY <1>1, <1>2, ElementsOfOne DEF Pieces, HeaderPiece
    <2>2. ASSUME NEW e \in ToSet(s), e.tag = "AC" PROVE auth # <<>>
        <3>1. auth = <<e>>
            BY <1>7, <2>2 DEF HeaderElement
        <3> QED
            BY <3>1
    <2> QED
        BY <1>5, <1>8, <2>1, <2>2
<1>12. IsHeader(m, auth, id, h)
    BY <1>4, <1>5, <1>6, <1>7, <1>9, <1>10, <1>11 DEF IsHeader, s
<1> QED
    BY <1>12 DEF h

-----------------------------------------------------------------------------
(* What the caller finds in an answer *)

\* The elements of an answer to m, with the user information.
Reads(m, id, epsem, a) ==
    /\ IsMessage(a) /\ a.standard = m.standard
    /\ InOrder(a.elements, TagOrder(m.standard), 0, Before(m.standard) + 1)
    /\ ~HasTag(a, "A3") /\ ~HasTag(a, "AB") /\ ~HasTag(a, "8B")
    /\ HasTag(a, "A1") => Find(a, "A1").value = m.standard
    /\ HasTag(a, "A2") <=> HasTag(m, "A6")
    /\ HasTag(a, "A2") => Find(a, "A2").value = CallingApTitle(m)
    /\ HasTag(a, "A6") /\ ValidateACSEFormat(Find(a, "A6").value, m.standard)
    /\ HasTag(a, "A7") => Find(a, "A7").value.standard = m.standard
    /\ HasTag(a, "A4") /\ Find(a, "A4").value = [id |-> CallingApInvocationId(m)]
    /\ Find(a, "A4").length \in IdLengths(m.standard)
    /\ HasTag(a, "A8") /\ Find(a, "A8").value = [id |-> id]
    /\ Find(a, "A8").length \in IdLengths(m.standard)
    /\ HasTag(a, "AC") => Find(a, "AC").value.standard = m.standard
    /\ HasTag(a, "BE") /\ Find(a, "BE").value.standard = m.standard
    /\ Find(a, "BE").value.epsem = epsem

\* The user information is behind the header, which is found as before.
LEMMA InformationIsBehind ==
    ASSUME NEW m, NEW auth, NEW id, NEW h, IsHeader(m, auth, id, h),
           NEW epsem, epsem.length \in Nat, NEW wantMac \in BOOLEAN,
           NEW w, w = SetUserInformation(h, epsem, wantMac)
    PROVE  /\ IsMessage(w) /\ w.standard = m.standard
           /\ w.elements = h.elements \o <<Information(h, epsem, wantMac)>>
           /\ HasTag(w, "BE") /\ Find(w, "BE") = Information(h, epsem, wantMac)
           /\ \A tag : tag # "BE" => /\ HasTag(w, tag) <=> HasTag(h, tag)
                                     /\ HasTag(h, tag) => Find(w, tag) = Find(h, tag)
<1> DEFINE e == Information(h, epsem, wantMac)
           s == h.elements
           t == w.elements
<1>1. /\ IsMessage(h) /\ IsList(s) /\ h.standard = m.standard
      /\ \A x \in ToSet(s) : HeaderElement(m, auth, id, x)
    BY DEF IsHeader, IsMessage
<1>2. IsElement(e) /\ w = Message(h.standard, s \o <<e>>) /\ e.tag = "BE"
    <2>1. IsElement(e) /\ w = Message(h.standard, s \o <<e>>)
        BY <1>1, UserInformationIsAdded
    <2>2. e.tag = "BE"
        BY DEF Information, Element
    <2> QED
        BY <2>1, <2>2
<1>3. w.standard = m.standard /\ t = s \o <<e>>
    <2> DEFINE u == s \o <<e>>
    <2>1. w = Message(h.standard, u)
        BY <1>2
    <2> HIDE DEF u
    <2>2. w.standard = h.standard /\ w.elements = u
        BY <2>1, MessageFields
    <2> QED
        BY <1>1, <2>2 DEF u
<1>4. IsList(<<e>>) /\ IsList(t) /\ w = Message(w.standard, t)
    <2> HIDE DEF e, s, t
    <2> QED
        BY <1>1, <1>2, <1>3, ListOfOne, ListsConcat
<1>5. ~Has(s, "BE")
    <2>1. \A x \in ToSet(s) : x.tag # "BE"
        BY <1>1 DEF HeaderElement
    <2> QED
        BY <1>1, <2>1, FoundInElements
<1> HIDE DEF e, s, t
<1>6. \A tag : /\ Has(t, tag) <=> Has(s, tag) \/ Has(<<e>>, tag)
               /\ Has(s, tag) => At(t, tag) = At(s, tag)
               /\ ~Has(s, tag) /\ Has(<<e>>, tag) => At(t, tag) = At(<<e>>, tag)
    BY <1>1, <1>3, <1>4, FindsInLists
<1>7. Has(<<e>>, "BE") /\ At(<<e>>, "BE") = e /\ \A tag : tag # "BE" => ~Has(<<e>>, tag)
    BY <1>2, FindsInOne
<1>8. /\ Has(t, "BE") /\ At(t, "BE") = e
      /\ \A tag : tag # "BE" => /\ Has(t, tag) <=> Has(s, tag)
                                /\ Has(s, tag) => At(t, tag) = At(s, tag)
    BY <1>5, <1>6, <1>7
<1> QED
    BY <1>3, <1>4, <1>8, FindsInElements DEF IsMessage, e, s, t

\* The header with the user information behind it is read as it was written.
LEMMA InformedReads ==
    ASSUME NEW m, Answerable(m), NEW auth, NEW id, NEW h, IsHeader(m, auth, id, h),
           NEW epsem, epsem.length \in Nat, NEW wantMac \in BOOLEAN,
           NEW w, w = SetUserInformation(h, epsem, wantMac)
    PROVE  /\ Reads(m, id, epsem, w)
           /\ HasTag(w, "AC") <=> auth # <<>>
           /\ auth # <<>> => auth = <<Find(w, "AC")>>
<1> DEFINE e == Information(h, epsem, wantMac)
           s == h.elements
<1>1. /\ IsMessage(w) /\ w.standard = m.standard /\ w.elements = s \o <<e>>
      /\ HasTag(w, "BE") /\ Find(w, "BE") = e
      /\ \A tag : tag # "BE" => /\ HasTag(w, tag) <=> HasTag(h, tag)
                                /\ HasTag(h, tag) => Find(w, tag) = Find(h, tag)
    BY InformationIsBehind
<1>2. /\ IsList(s) /\ h.standard = m.standard
      /\ InOrder(s, TagOrder(m.standard), 0, Before(m.standard))
      /\ \A x \in ToSet(s) : HeaderElement(m, auth, id, x)
      /\ \A tag \in {"A4", "A6", "A8"} : Has(s, tag)
      /\ Has(s, "A2") <=> HasTag(m, "A6")
      /\ Has(s, "AC") <=> auth # <<>>
    BY DEF IsHeader, IsMessage, Part
<1>3. /\ e.tag = "BE" /\ IsElement(e)
      /\ e.value.standard = m.standard /\ e.value.epsem = epsem
    <2>1. IsElement(e)
        BY UserInformationIsAdded DEF IsHeader
    <2>2. /\ e.tag = "BE"
          /\ e.value.standard = h.standard /\ e.value.epsem = epsem
        BY DEF Information, Element
    <2> QED
        BY <1>2, <2>1, <2>2
<1> HIDE DEF e, s
<1>4. InOrder(w.elements, TagOrder(m.standard), 0, Before(m.standard) + 1)
    <2> DEFINE o == TagOrder(m.standard)
               b == Before(m.standard)
    <2>1. "BE" \in ToSet(o) /\ Place(o, "BE") = b + 1 /\ b \in Nat
        <3>1. CASE m.standard = "2006"
            BY <3>1, Places2006 DEF TagOrder, Before
        <3>2. CASE m.standard = "2008"
            BY <3>2, Places2008 DEF TagOrder, Before
        <3> QED
            BY <3>1, <3>2 DEF Answerable, Standards
    <2> HIDE DEF o, b
    <2>2. InOrder(<<e>>, o, b, b + 1) /\ IsList(<<e>>)
        BY <1>3, <2>1, OneInOrder, ListOfOne
    <2>3. InOrder(s \o <<e>>, o, 0, b + 1)
        <3>1. InOrder(s, o, 0, b)
            BY <1>2 DEF o, b
        <3>2. 0 <= b /\ b <= b + 1 /\ 0 \in Nat /\ b + 1 \in Nat
            BY <2>1
        <3> QED
            BY <1>2, <2>1, <2>2, <3>1, <3>2, ConcatInOrder
    <2> QED
        BY <1>1, <2>3 DEF o, b
<1>5. \A tag : /\ HasTag(h, tag) <=> Has(s, tag)
               /\ HasTag(h, tag) => /\ HeaderElement(m, auth, id, Find(h, tag))
                                    /\ Find(h, tag).tag = tag
    BY <1>2, FoundInElements, FindsInElements DEF s
<1>6. \A tag : HasTag(h, tag) => tag \in {"A1", "A2", "A4", "A6", "A7", "A8", "AC"}
    BY <1>5 DEF HeaderElement
<1>7. /\ HasTag(h, "A1") => Find(h, "A1").value = m.standard
      /\ HasTag(h, "A2") => Find(h, "A2").value = CallingApTitle(m)
      /\ HasTag(h, "A6") => ValidateACSEFormat(Find(h, "A6").value, m.standard)
      /\ HasTag(h, "A7") => Find(h, "A7").value.standard = m.standard
      /\ HasTag(h, "A4") => /\ Find(h, "A4").value = [id |-> CallingApInvocationId(m)]
                            /\ Find(h, "A4").length \in IdLengths(m.standard)
      /\ HasTag(h, "A8") => /\ Find(h, "A8").value = [id |-> id]
                            /\ Find(h, "A8").length \in IdLengths(m.standard)
      /\ HasTag(h, "AC") => /\ Find(h, "AC").value.standard = m.standard
                            /\ auth = <<Find(h, "AC")>>
    BY <1>5 DEF HeaderElement
<1>8. Reads(m, id, epsem, w)
    BY <1>1, <1>2, <1>3, <1>4, <1>5, <1>6, <1>7 DEF Reads
<1> QED
    BY <1>1, <1>2, <1>5, <1>7, <1>8

\* Encrypting an answer, or filling in its authentication value, changes nothing else.
LEMMA ReplacedReads ==
    ASSUME NEW m, NEW id, NEW epsem, NEW w, Reads(m, id, epsem, w),
           NEW tag \in {"AC", "BE"}, HasTag(w, tag), NEW value, value.standard = m.standard,
           tag = "BE" => value.epsem = epsem,
           NEW a, a = Replace(w, tag, value)
    PROVE  /\ Reads(m, id, epsem, a)
           /\ Find(a, tag).value = value
           /\ \A other : /\ HasTag(a, other) <=> HasTag(w, other)
                         /\ HasTag(w, other) /\ other # tag => Find(a, other) = Find(w, other)
<1>1. /\ IsMessage(a) /\ a.standard = w.standard
      /\ \A other : /\ HasTag(a, other) <=> HasTag(w, other)
                    /\ HasTag(w, other) /\ other # tag => Find(a, other) = Find(w, other)
      /\ Find(a, tag) = Element(tag, Find(w, tag).length, value)
    BY ReplaceKeepsTheRest, ReplaceFinds DEF Reads
<1>2. Find(a, tag).value = value
    BY <1>1 DEF Element
<1>3. InOrder(a.elements, TagOrder(m.standard), 0, Before(m.standard) + 1)
    BY ReplaceKeepsOrder DEF Reads
<1>4. Reads(m, id, epsem, a)
    <2>1. CASE tag = "AC"
        BY <1>1, <1>2, <1>3, <2>1 DEF Reads
    <2>2. CASE tag = "BE"
        BY <1>1, <1>2, <1>3, <2>2 DEF Reads
    <2> QED
        BY <2>1, <2>2
<1> QED
    BY <1>1, <1>2, <1>4

\* The caller finds the elements in the order of its standard.
LEMMA ReadsInOrder ==
    ASSUME NEW m, Answerable(m), NEW id, NEW epsem, NEW a, Reads(m, id, epsem, a)
    PROVE  TagOrderOK(a, TagOrder(m.standard))
<1>1. Before(m.standard) + 1 \in Nat
    BY DEF Before
<1>2. IsList(a.elements) /\ InOrder(a.elements, TagOrder(m.standard), 0, Before(m.standard) + 1)
    BY DEF Reads, IsMessage
<1> QED
    BY <1>1, <1>2, InOrderIsOK

\* The caller finds the elements that both standards check as they must be.
LEMMA ReadsShared ==
    ASSUME NEW m, Answerable(m), NEW id, NEW epsem, NEW a, Reads(m, id, epsem, a)
    PROVE  /\ SharedElementsOK(a, m.standard)
           /\ ValidAuthenticationValue(a, m.standard)
           /\ UsesC1222Encryption(a)
<1>1. UsesC1222Encryption(a)
    BY DEF Reads, UsesC1222Encryption
<1>2. SharedElementsOK(a, m.standard)
    <2>1. HasTag(a, "A8") /\ HasTag(a, "BE") /\ Value(a, "A1", m.standard) = m.standard
        BY DEF Reads, Value
    <2>2. HasTag(a, "A2") => ValidateACSEFormat(Find(a, "A2").value, m.standard)
        BY DEF Reads, Answerable
    <2>3. HasTag(a, "A6") => ValidateACSEFormat(Find(a, "A6").value, m.standard)
        BY DEF Reads
    <2>4. HasTag(a, "A7") => Find(a, "A7").value.standard = m.standard
        BY DEF Reads
    <2> QED
        BY <2>1, <2>2, <2>3, <2>4 DEF SharedElementsOK
<1>3. ValidAuthenticationValue(a, m.standard)
    BY <1>1 DEF Reads, ValidAuthenticationValue
<1> QED
    BY <1>1, <1>2, <1>3

\* The caller takes an answer to be of the standard of its request, and finds its
\* own title and id, and this node's, in it.
LEMMA ReadsAreRead ==
    ASSUME NEW m, Answerable(m), NEW id, NEW epsem, epsem.valid,
           NEW a, Reads(m, id, epsem, a)
    PROVE  /\ StandardOf(a) = m.standard
           /\ CalledApInvocationId(a) = CallingApInvocationId(m)
           /\ CallingApInvocationId(a) = id
           /\ CalledApTitle(a) = CallingApTitle(m)
<1>1. /\ TagOrderOK(a, TagOrder(m.standard)) /\ SharedElementsOK(a, m.standard)
      /\ ValidAuthenticationValue(a, m.standard)
    BY ReadsInOrder, ReadsShared
<1>2. ValidInformationValue(a, m.standard)
    BY DEF Reads, ValidInformationValue
<1>3. /\ HasTag(a, "A4") /\ HasTag(a, "A8") /\ HasTag(a, "BE") /\ ~HasTag(a, "A3")
      /\ Find(a, "A4").length \in IdLengths(m.standard)
      /\ Find(a, "A8").length \in IdLengths(m.standard)
      /\ Find(a, "BE").value.standard = m.standard
    BY DEF Reads
<1>4. ASSUME m.standard = "2006" PROVE StandardOf(a) = m.standard
    <2>1. Find(a, "A4").length = 2 /\ Find(a, "A8").length = 2
        BY <1>3, <1>4 DEF IdLengths
    <2>2. TagOrderOK(a, tagOrder2006)
        BY <1>1, <1>4 DEF TagOrder
    <2>3. ~IsSegmented2006(a) /\ \A tag \in {"A4", "A8"} : Find(a, tag).length \in 1..2
        BY <2>1 DEF IsSegmented2006
    <2>4. IsValidFormat2006(a)
        BY <1>1, <1>2, <1>4, <2>2, <2>3 DEF IsValidFormat2006
    <2>5. IsMarch2006FormatMessage(a)
        BY <1>3, <1>4 DEF IsMarch2006FormatMessage
    <2> QED
        BY <1>4, <2>4, <2>5 DEF StandardOf
<1>5. ASSUME m.standard = "2008" PROVE StandardOf(a) = m.standard
    <2>1. \A tag \in {"A4", "A8"} : Find(a, tag).length \in {3, 4} /\ Find(a, tag).length \in 3..4
        BY <1>3, <1>5 DEF IdLengths
    <2>2. TagOrderOK(a, tagOrder2008)
        BY <1>1, <1>5 DEF TagOrder
    <2>3. ~IsSegmented2008(a)
        BY <1>3 DEF IsSegmented2008
    <2>4. IsValidFormat2008(a)
        BY <1>1, <1>2, <1>5, <2>1, <2>2, <2>3 DEF IsValidFormat2008
    <2>5. StartsAs2008(Find(a, "A8"))
        <3>1. Find(a, "A8").value = [id |-> id] /\ Find(a, "A8").length \in {3, 4}
            BY <2>1 DEF Reads
        <3>2. "offset" \notin DOMAIN [id |-> id]
            OBVIOUS
        <3> QED
            BY <3>1, <3>2 DEF StartsAs2008
    <2>6. ~IsMarch2006FormatMessage(a)
        BY <1>3, <1>5, <2>4, <2>5 DEF IsMarch2006FormatMessage
    <2> QED
        BY <1>5, <2>4, <2>6 DEF StandardOf
<1>6. StandardOf(a) = m.standard
    BY <1>4, <1>5 DEF Answerable, Standards
<1>7. /\ CalledApInvocationId(a) = CallingApInvocationId(m)
      /\ CallingApInvocationId(a) = id
    <2>1. /\ Find(a, "A4").value.id = CallingApInvocationId(m)
          /\ Find(a, "A8").value.id = id
        BY DEF Reads
    <2> QED
        BY <1>3, <2>1 DEF CalledApInvocationId, CallingApInvocationId, Value
<1>8. CalledApTitle(a) = CallingApTitle(m)
    BY DEF Reads, CalledApTitle, CallingApTitle, Value
<1> QED
    BY <1>6, <1>7, <1>8

-----------------------------------------------------------------------------
(* How an answer is protected *)

\* The elements that an authentication code covers are the same.
SameCalling(a, b) ==
    /\ a.standard = b.standard
    /\ \A tag \in {"A6", "A7", "A8"} : /\ HasTag(a, tag) <=> HasTag(b, tag)
                                       /\ HasTag(a, tag) => Find(a, tag) = Find(b, tag)

\* A code over the same elements is the same code.
LEMMA SameMac ==
    ASSUME NEW a, NEW b, SameCalling(a, b), NEW start
    PROVE  Mac(a, start) = Mac(b, start)
<1>1. CallingApTitle(a) = CallingApTitle(b)
    BY DEF CallingApTitle, Value, SameCalling
<1>2. CoveredApTitle(a) = CoveredApTitle(b)
    BY <1>1 DEF CoveredApTitle, SameCalling
<1>3. /\ HasTag(a, "A7") <=> HasTag(b, "A7")
      /\ HasTag(a, "A7") => CallingAeQualifier(a) = CallingAeQualifier(b)
    BY DEF CallingAeQualifier, Value, SameCalling
<1>4. /\ HasTag(a, "A8") <=> HasTag(b, "A8")
      /\ CallingApInvocationId(a) = CallingApInvocationId(b)
    BY DEF CallingApInvocationId, Value, SameCalling
<1>5. CoveredNumbers(a) = CoveredNumbers(b)
    BY <1>3, <1>4 DEF CoveredNumbers
<1>6. a.standard = b.standard
    BY DEF SameCalling
<1> QED
    BY <1>2, <1>5, <1>6 DEF Mac

\* The authentication value of an answer is that of the request's key.
AuthOf(m) ==
    IF IsEncrypted(m) THEN SetAuthValueForEncryption(m.standard, Key(m))
    ELSE IF IsAuthenticated(m) THEN SetInitialAuthValueForAuthentication(m.standard, Key(m))
    ELSE <<>>

\* SetAuthValue builds one element, of the length of its standard.
LEMMA AuthValueIs ==
    ASSUME NEW m, Answerable(m), NEW keyId, NEW token, Len(token) \in {0, 1}
    PROVE  /\ IsAuth(m, SetAuthValue(m.standard, keyId, token))
           /\ SetAuthValue(m.standard, keyId, token) # <<>>
           /\ \A e : SetAuthValue(m.standard, keyId, token) = <<e>> =>
                  e.value = [standard |-> m.standard, keyId |-> keyId, token |-> token]
<1> DEFINE length == (IF m.standard = "2006" THEN 6 ELSE 12) + (IF keyId = 0 THEN 0 ELSE 3)
                        + 10 * Len(token)
           value  == [standard |-> m.standard, keyId |-> keyId, token |-> token]
           x      == Element("AC", length, value)
<1>1. SetAuthValue(m.standard, keyId, token) = <<x>>
    BY DEF SetAuthValue
<1>2. length \in 0..25
    <2> DEFINE x1 == IF m.standard = "2006" THEN 6 ELSE 12
               x2 == IF keyId = 0 THEN 0 ELSE 3
               x3 == 10 * Len(token)
    <2>1. x1 \in {6, 12} /\ x2 \in {0, 3}
        OBVIOUS
    <2>3. x3 \in {0, 10}
        <3> PICK n \in {0, 1} : n = Len(token)
            OBVIOUS
        <3>1. 10 * n \in {0, 10}
            OBVIOUS
        <3> QED
            BY <3>1
    <2>2. length = x1 + x2 + x3
        OBVIOUS
    <2> HIDE DEF length, x1, x2, x3
    <2> QED
        BY <2>1, <2>2, <2>3
<1> HIDE DEF length
<1>3. value.standard = m.standard
    OBVIOUS
<1>4. x.value = value
    BY DEF Element
<1> HIDE DEF value
<1>5. IsAuth(m, <<x>>)
    BY <1>2, <1>3 DEF IsAuth
<1> HIDE DEF x
<1>6. <<x>> # <<>> /\ \A e : <<x>> = <<e>> => e = x
    OBVIOUS
<1> QED
    BY <1>1, <1>4, <1>5, <1>6 DEF value

\* An answer has an authentication value when its request is encrypted or authenticated.
LEMMA AuthOfIs ==
    ASSUME NEW m, Answerable(m)
    PROVE  /\ IsAuth(m, AuthOf(m))
           /\ AuthOf(m) = <<>> <=> ~IsEncrypted(m) /\ ~IsAuthenticated(m)
           /\ \A e : AuthOf(m) = <<e>> => /\ e.value.standard = m.standard
                                          /\ e.value.keyId = Key(m)
                                          /\ IsEncrypted(m) <=> e.value.token = <<>>
<1> DEFINE token1 == <<[sealedWith |-> NoNumber, info |-> <<>>]>>
           E(keyId, token) == [standard |-> m.standard, keyId |-> keyId, token |-> token]
<1>1. Len(<<>>) = 0 /\ Len(token1) = 1 /\ token1 # <<>>
    OBVIOUS
<1>2. ~(IsEncrypted(m) /\ IsAuthenticated(m))
    BY DEF IsEncrypted, IsAuthenticated
<1>3. \A keyId, token : /\ E(keyId, token).standard = m.standard
                        /\ E(keyId, token).keyId = keyId
                        /\ E(keyId, token).token = token
    OBVIOUS
<1>4. CASE IsEncrypted(m)
    <2>1. AuthOf(m) = SetAuthValue(m.standard, Key(m), <<>>)
        BY <1>4 DEF AuthOf, SetAuthValueForEncryption
    <2>2. /\ IsAuth(m, AuthOf(m)) /\ AuthOf(m) # <<>>
          /\ \A e : AuthOf(m) = <<e>> => e.value = E(Key(m), <<>>)
        BY <1>1, <2>1, AuthValueIs
    <2> HIDE DEF E, token1
    <2> QED
        BY <1>3, <1>4, <2>2
<1>5. CASE IsAuthenticated(m)
    <2>1. AuthOf(m) = SetAuthValue(m.standard, Key(m), token1)
        BY <1>2, <1>5 DEF AuthOf, SetInitialAuthValueForAuthentication
    <2> HIDE DEF token1
    <2>2. /\ IsAuth(m, AuthOf(m)) /\ AuthOf(m) # <<>>
          /\ \A e : AuthOf(m) = <<e>> => e.value = E(Key(m), token1)
        BY <1>1, <2>1, AuthValueIs
    <2> HIDE DEF E
    <2> QED
        BY <1>1, <1>2, <1>3, <1>5, <2>2
<1>6. CASE ~IsEncrypted(m) /\ ~IsAuthenticated(m)
    <2>1. AuthOf(m) = <<>>
        BY <1>6 DEF AuthOf
    <2>2. \A e : <<>> # <<e>>
        OBVIOUS
    <2> QED
        BY <1>6, <2>1, <2>2 DEF IsAuth
<1> QED
    BY <1>4, <1>5, <1>6

\* What an answer says of its protection: it can be opened with the request's key.
ProtectedAs(m, a) ==
    /\ IsEncrypted(a) <=> IsEncrypted(m)
    /\ IsAuthenticated(a) <=> IsAuthenticated(m)
    /\ IsSecure(a, Keys)

\* The code of a message that is the same where it counts is right.
LEMMA MacIsTaken ==
    ASSUME NEW a, NEW w, SameCalling(w, a), NEW start
    PROVE  MacIsRight(a, start, Mac(w, start))
BY SameMac DEF MacIsRight

\* The answer to a request in plain text is in plain text.
LEMMA PlainIsProtected ==
    ASSUME NEW m, ~IsEncrypted(m), ~IsAuthenticated(m), NEW a, ~HasTag(a, "AC")
    PROVE  ProtectedAs(m, a)
BY DEF ProtectedAs, IsSecure, IsEncrypted, IsAuthenticated, IsEncryptedOrAuthenticated

\* The header, with the user information, of an answer.
Informs(m, id, epsem, w) ==
    LET h == ResponseHeader(m, id)
        e == Information(h, epsem, IsEncrypted(m))
    IN  /\ Reads(m, id, epsem, w)
        /\ HasTag(w, "AC") <=> AuthOf(m) # <<>>
        /\ AuthOf(m) # <<>> => AuthOf(m) = <<Find(w, "AC")>>
        /\ Find(w, "BE") = e
        /\ SameCalling(h, w)

\* The header of an answer to requests is one.
LEMMA ResponseHeaderIs ==
    ASSUME NEW m, Answerable(m), NEW id
    PROVE  IsHeader(m, AuthOf(m), id, ResponseHeader(m, id))
<1>1. IsAuth(m, AuthOf(m)) /\ IsOwnTitle(AnswerApTitle(m))
    BY AuthOfIs, AnswerTitleIsValid DEF Answerable
<1>2. ResponseHeader(m, id) = Header(m, AnswerApTitle(m), AuthOf(m), id)
    BY DEF ResponseHeader, AuthOf
<1> QED
    BY <1>1, <1>2, HeaderIs

\* What SetUserInformation makes of it.
LEMMA AnswerInforms ==
    ASSUME NEW m, Answerable(m), NEW id, NEW epsem, epsem.length \in Nat
    PROVE  Informs(m, id, epsem, SetUserInformation(ResponseHeader(m, id), epsem, IsEncrypted(m)))
<1> DEFINE h == ResponseHeader(m, id)
           wantMac == IsEncrypted(m)
           w == SetUserInformation(h, epsem, wantMac)
<1>1. IsHeader(m, AuthOf(m), id, h)
    BY ResponseHeaderIs
<1>2. wantMac \in BOOLEAN
    BY DEF IsEncrypted, IsEncryptedOrAuthenticated
<1> HIDE DEF h, wantMac, w
<1>3. PICK u : u = w
    OBVIOUS
<1>4. u = SetUserInformation(h, epsem, wantMac)
    BY <1>3 DEF w
<1>5. /\ Reads(m, id, epsem, u)
      /\ HasTag(u, "AC") <=> AuthOf(m) # <<>>
      /\ AuthOf(m) # <<>> => AuthOf(m) = <<Find(u, "AC")>>
    BY <1>1, <1>2, <1>4, InformedReads
<1>6. /\ IsMessage(u) /\ u.standard = m.standard
      /\ u.elements = h.elements \o <<Information(h, epsem, wantMac)>>
      /\ HasTag(u, "BE") /\ Find(u, "BE") = Information(h, epsem, wantMac)
      /\ \A tag : tag # "BE" => /\ HasTag(u, tag) <=> HasTag(h, tag)
                                /\ HasTag(h, tag) => Find(u, tag) = Find(h, tag)
    BY <1>1, <1>2, <1>4, InformationIsBehind
<1>7. SameCalling(h, u)
    BY <1>1, <1>6 DEF SameCalling, IsHeader
<1>8. Informs(m, id, epsem, u)
    BY <1>5, <1>6, <1>7 DEF Informs, h, wantMac
<1> QED
    BY <1>3, <1>8 DEF w, h, wantMac

\* The answer to an encrypted request is encrypted with the request's key.
LEMMA EncryptedIsProtected ==
    ASSUME NEW m, Answerable(m), IsEncrypted(m), Key(m) \in Keys, NEW id, NEW epsem,
           NEW w, Informs(m, id, epsem, w), NEW a, a = Encrypt(w, Key(m))
    PROVE  Reads(m, id, epsem, a) /\ ProtectedAs(m, a)
<1> DEFINE h == ResponseHeader(m, id)
           i == Information(h, epsem, TRUE)
           value == [i.value EXCEPT !.sealedWith = Key(m)]
<1>1. /\ Reads(m, id, epsem, w) /\ HasTag(w, "AC") /\ Find(w, "BE") = i
      /\ SameCalling(h, w) /\ AuthOf(m) = <<Find(w, "AC")>> /\ HasTag(w, "BE")
    BY AuthOfIs DEF Informs, Reads
<1>2. i.value = [standard |-> h.standard, epsem |-> epsem, sealedWith |-> NoNumber,
                 mac |-> Mac(h, epsem)]
    BY DEF Information, Element
<1>3. h.standard = m.standard
    BY <1>1 DEF SameCalling, Reads
<1> HIDE DEF h
<1>4. /\ value.standard = m.standard /\ value.epsem = epsem /\ value.sealedWith = Key(m)
      /\ value.mac = Mac(h, epsem)
    <2> HIDE DEF i
    <2>1. value = [standard |-> h.standard, epsem |-> epsem, sealedWith |-> Key(m),
                   mac |-> Mac(h, epsem)]
        BY <1>2
    <2> HIDE DEF value
    <2> QED
        BY <1>3, <2>1
<1>5. a = Replace(w, "BE", value)
    BY <1>1 DEF Encrypt
<1> HIDE DEF i, value
<1>6. /\ Reads(m, id, epsem, a) /\ Find(a, "BE").value = value
      /\ \A other : /\ HasTag(a, other) <=> HasTag(w, other)
                    /\ HasTag(w, other) /\ other # "BE" => Find(a, other) = Find(w, other)
    <2>1. "BE" \in {"AC", "BE"} /\ ("BE" = "BE" => value.epsem = epsem)
        BY <1>4
    <2>2. /\ Reads(m, id, epsem, w) /\ HasTag(w, "BE") /\ value.standard = m.standard
          /\ a = Replace(w, "BE", value)
        BY <1>1, <1>4, <1>5
    <2> QED
        BY <2>1, <2>2, ReplacedReads
<1>7. HasTag(a, "AC") /\ Find(a, "AC").value.keyId = Key(m) /\ Find(a, "AC").value.token = <<>>
    BY <1>1, <1>6, AuthOfIs
<1>8. IsEncrypted(a) /\ ~IsAuthenticated(a) /\ ~IsAuthenticated(m)
    BY <1>6, <1>7, ReadsShared
    DEF IsEncrypted, IsAuthenticated, IsEncryptedOrAuthenticated
<1>9. SameCalling(h, a)
    BY <1>1, <1>6 DEF SameCalling, Reads
<1>10. Decrypts(a, Keys)
    BY <1>4, <1>6, <1>7, <1>9, MacIsTaken DEF Decrypts, Key
<1> QED
    BY <1>6, <1>8, <1>10 DEF ProtectedAs, IsSecure

\* The answer to an authenticated request is authenticated with the request's key.
LEMMA AuthenticatedIsProtected ==
    ASSUME NEW m, Answerable(m), IsAuthenticated(m), Key(m) \in Keys, NEW id, NEW epsem,
           NEW w, Informs(m, id, epsem, w), NEW a, a = UpdateAuthValue(w, Key(m))
    PROVE  Reads(m, id, epsem, a) /\ ProtectedAs(m, a)
<1> DEFINE token == [sealedWith |-> Key(m), info |-> Mac(w, TokenStart(w))]
           x == Find(w, "AC").value
           value == [x EXCEPT !.token = <<token>>]
<1>1. /\ ~IsEncrypted(m)
      /\ Reads(m, id, epsem, w) /\ HasTag(w, "AC") /\ HasTag(w, "BE")
      /\ AuthOf(m) = <<Find(w, "AC")>>
    BY AuthOfIs DEF Informs, Reads, IsEncrypted, IsAuthenticated
<1>2. \E t : x = [standard |-> m.standard, keyId |-> Key(m), token |-> t]
    <2> DEFINE t == <<[sealedWith |-> NoNumber, info |-> <<>>]>>
    <2>1. AuthOf(m) = SetAuthValue(m.standard, Key(m), t)
        BY <1>1 DEF AuthOf, SetInitialAuthValueForAuthentication
    <2>2. Len(t) = 1
        OBVIOUS
    <2> HIDE DEF t, x
    <2>3. Find(w, "AC").value = [standard |-> m.standard, keyId |-> Key(m), token |-> t]
        BY <1>1, <2>1, <2>2, AuthValueIs
    <2> QED
        BY <2>3 DEF x
<1>3. a = Replace(w, "AC", value)
    BY DEF UpdateAuthValue
<1>4. value.standard = m.standard /\ value.keyId = Key(m) /\ value.token = <<token>>
    <2> HIDE DEF x, token
    <2> QED
        BY <1>2
<1> HIDE DEF value, x
<1>5. /\ Reads(m, id, epsem, a) /\ Find(a, "AC").value = value
      /\ \A other : /\ HasTag(a, other) <=> HasTag(w, other)
                    /\ HasTag(w, other) /\ other # "AC" => Find(a, other) = Find(w, other)
    BY <1>1, <1>3, <1>4, ReplacedReads
<1>6. <<token>> # <<>> /\ <<token>>[1] = token
    OBVIOUS
<1>7. token.sealedWith = Key(m) /\ token.info = Mac(w, TokenStart(w))
    OBVIOUS
<1> HIDE DEF token
<1>8. IsAuthenticated(a) /\ ~IsEncrypted(a)
    BY <1>1, <1>4, <1>5, <1>6, ReadsShared
    DEF IsEncrypted, IsAuthenticated, IsEncryptedOrAuthenticated
<1>9. SameCalling(w, a)
    BY <1>1, <1>5 DEF SameCalling, Reads
<1>10. TokenStart(a) = TokenStart(w)
    BY <1>1, <1>5 DEF TokenStart
<1>11. Authenticates(a, Keys)
    BY <1>4, <1>5, <1>6, <1>7, <1>9, <1>10, MacIsTaken DEF Authenticates, Key
<1> QED
    BY <1>1, <1>5, <1>8, <1>11 DEF ProtectedAs, IsSecure

\* An answer is read, and protected as its request is.
LEMMA ProtectIsRead ==
    ASSUME NEW m, Answerable(m), IsSecure(m, Keys), NEW id, NEW epsem, epsem.length \in Nat,
           NEW a, a = Protect(m, epsem, ResponseHeader(m, id))
    PROVE  Reads(m, id, epsem, a) /\ ProtectedAs(m, a)
<1> DEFINE w == SetUserInformation(ResponseHeader(m, id), epsem, IsEncrypted(m))
<1>1. Informs(m, id, epsem, w)
    BY AnswerInforms
<1>2. a = IF IsEncrypted(m) THEN Encrypt(w, Key(m))
          ELSE IF IsAuthenticated(m) THEN UpdateAuthValue(w, Key(m))
          ELSE w
    BY DEF Protect
<1>3. IsEncrypted(m) \/ IsAuthenticated(m) => Key(m) \in Keys
    BY DEF IsSecure, Decrypts, Authenticates
<1> HIDE DEF w
<1>4. CASE IsEncrypted(m)
    BY <1>1, <1>2, <1>3, <1>4, EncryptedIsProtected
<1>5. CASE ~IsEncrypted(m) /\ IsAuthenticated(m)
    BY <1>1, <1>2, <1>3, <1>5, AuthenticatedIsProtected
<1>6. CASE ~IsEncrypted(m) /\ ~IsAuthenticated(m)
    <2>1. a = w /\ ~HasTag(w, "AC")
        BY <1>1, <1>2, <1>6, AuthOfIs DEF Informs
    <2> QED
        BY <1>1, <1>6, <2>1, PlainIsProtected DEF Informs
<1> QED
    BY <1>4, <1>5, <1>6

-----------------------------------------------------------------------------
(* The requests of a message, one after the other *)

NothingDone(isRegistered) ==
    [items |-> <<>>, length |-> 0, error |-> FALSE, full |-> FALSE, registered |-> isRegistered]

\* The function that ProcessFirst unfolds, up to k.
Processes(done, items, isRegistered, k) ==
    done = [n \in 0..k |-> IF n = 0 THEN NothingDone(isRegistered)
                           ELSE ProcessEpsemRequest(done[n - 1], items[n])]

\* The function that ProcessFirst unfolds exists, by induction on how many requests it covers.
LEMMA ProcessesExist ==
    ASSUME NEW items, NEW isRegistered, NEW k \in Nat
    PROVE  \E done : Processes(done, items, isRegistered, k)
<1> DEFINE S == {i \in Nat : \E done : Processes(done, items, isRegistered, i)}
<1>1. 0 \in S
    <2>1. Processes([n \in 0..0 |-> NothingDone(isRegistered)], items, isRegistered, 0)
        BY DEF Processes
    <2> QED
        BY <2>1
<1>2. ASSUME NEW i \in Nat, i \in S PROVE i + 1 \in S
    <2>1. PICK done : Processes(done, items, isRegistered, i)
        BY <1>2
    <2> DEFINE next == [n \in 0..(i + 1) |-> IF n <= i THEN done[n]
                                             ELSE ProcessEpsemRequest(done[i], items[n])]
    <2>2. \A n \in 0..i : done[n] = IF n = 0 THEN NothingDone(isRegistered)
                                    ELSE ProcessEpsemRequest(done[n - 1], items[n])
        BY <2>1 DEF Processes
    <2>3. \A n \in 0..(i + 1) : next[n] = IF n = 0 THEN NothingDone(isRegistered)
                                          ELSE ProcessEpsemRequest(next[n - 1], items[n])
        BY <2>2
    <2>4. Processes(next, items, isRegistered, i + 1)
        BY <2>3 DEF Processes
    <2> QED
        BY <2>4
<1> HIDE DEF S
<1>3. Nat \subseteq S
    BY <1>1, <1>2, Induction
<1> QED
    BY <1>3 DEF S

\* ProcessFirst is such a function.
LEMMA ProcessFirstIs ==
    ASSUME NEW items, NEW isRegistered, NEW k \in Nat
    PROVE  \E done : /\ Processes(done, items, isRegistered, k)
                     /\ ProcessFirst(items, isRegistered, k) = done[k]
<1> DEFINE done == CHOOSE f : Processes(f, items, isRegistered, k)
<1>1. Processes(done, items, isRegistered, k)
    BY ProcessesExist
<1>2. ProcessFirst(items, isRegistered, k) = done[k]
    BY DEF ProcessFirst, Processes, NothingDone
<1> QED
    BY <1>1, <1>2

\* Two of them agree where both are defined.
LEMMA ProcessesAgree ==
    ASSUME NEW items, NEW isRegistered, NEW k \in Nat, NEW l \in Nat, k <= l,
           NEW f, NEW g, Processes(f, items, isRegistered, k), Processes(g, items, isRegistered, l)
    PROVE  f[k] = g[k]
<1> DEFINE S == {i \in Nat : i <= k => f[i] = g[i]}
<1>1. 0 \in S
    BY DEF Processes
<1>2. ASSUME NEW i \in Nat, i \in S PROVE i + 1 \in S
    <2>1. SUFFICES ASSUME i + 1 <= k PROVE f[i + 1] = g[i + 1]
        OBVIOUS
    <2>2. f[i] = g[i]
        BY <1>2, <2>1
    <2>3. i + 1 \in 0..k /\ i + 1 \in 0..l /\ i + 1 # 0 /\ (i + 1) - 1 = i
        BY <2>1
    <2>4. /\ f[i + 1] = ProcessEpsemRequest(f[i], items[i + 1])
          /\ g[i + 1] = ProcessEpsemRequest(g[i], items[i + 1])
        BY <2>3 DEF Processes
    <2> QED
        BY <2>2, <2>4
<1> HIDE DEF S
<1>3. Nat \subseteq S
    BY <1>1, <1>2, Induction
<1> QED
    BY <1>3 DEF S

\* One request more.
LEMMA ProcessOneMore ==
    ASSUME NEW items, NEW isRegistered
    PROVE  /\ ProcessFirst(items, isRegistered, 0) = NothingDone(isRegistered)
           /\ \A n \in Nat :
                 ProcessFirst(items, isRegistered, n + 1) =
                    ProcessEpsemRequest(ProcessFirst(items, isRegistered, n), items[n + 1])
<1>1. ProcessFirst(items, isRegistered, 0) = NothingDone(isRegistered)
    <2>1. PICK f : /\ Processes(f, items, isRegistered, 0)
                   /\ ProcessFirst(items, isRegistered, 0) = f[0]
        BY ProcessFirstIs
    <2> QED
        BY <2>1 DEF Processes
<1>2. ASSUME NEW n \in Nat
      PROVE  ProcessFirst(items, isRegistered, n + 1) =
                ProcessEpsemRequest(ProcessFirst(items, isRegistered, n), items[n + 1])
    <2>1. PICK f : /\ Processes(f, items, isRegistered, n)
                   /\ ProcessFirst(items, isRegistered, n) = f[n]
        BY ProcessFirstIs
    <2>2. PICK g : /\ Processes(g, items, isRegistered, n + 1)
                   /\ ProcessFirst(items, isRegistered, n + 1) = g[n + 1]
        BY ProcessFirstIs
    <2>3. f[n] = g[n]
        BY <2>1, <2>2, ProcessesAgree
    <2>4. n + 1 \in 0..(n + 1) /\ n + 1 # 0 /\ (n + 1) - 1 = n
        OBVIOUS
    <2>5. g[n + 1] = ProcessEpsemRequest(g[n], items[n + 1])
        BY <2>2, <2>4 DEF Processes
    <2> QED
        BY <2>1, <2>2, <2>3, <2>5
<1> QED
    BY <1>1, <1>2

\* A response to one of them, and what it takes.
Codes     == {"OK", "ERR", "ONP", "IAR", "BSY", "SNS"}
Responses == [command : {"response"}, code : Codes, response : Nat]

Takes(response) == SizeOfLength(response.response) + response.response

Items == Seq([command : STRING, response : Nat])

\* A response is one.
LEMMA ResponseIs ==
    ASSUME NEW code \in Codes, NEW length \in Nat
    PROVE  /\ Response(code, length) \in Responses
           /\ Response(code, length).code = code
           /\ Response(code, length).response = length
BY DEF Response, Responses

\* What a response takes: its length, and one to three bytes for it.
LEMMA TakesIsNatural ==
    ASSUME NEW x \in Responses
    PROVE  /\ Takes(x) \in Nat /\ Takes(x) <= x.response + 3
           /\ x.response < 128 => Takes(x) = x.response + 1
<1>1. x.response \in Nat
    BY DEF Responses
<1> QED
    BY <1>1 DEF Takes, SizeOfLength

\* What one request is answered with: but for an identification, within the length
\* that is left.
LEMMA PsemRequestIs ==
    ASSUME NEW item \in [command : STRING, response : Nat], NEW n \in Nat, n >= 5,
           NEW isRegistered \in BOOLEAN,
           NEW x, x = ProcessPsemRequest(item, n, isRegistered)
    PROVE  /\ x \in Responses
           /\ x.response <= n \/ (item.command = "ident" /\ x.response = IdentLength)
<1>1. item.response \in Nat
    OBVIOUS
<1>2. EncodedLength(RegisteredApTitle) \in Nat
    BY NodeAssumption, TitleFields
<1> DEFINE R(code, length) == x = Response(code, length)
<1>3. \/ R("OK", IdentLength) /\ item.command = "ident"
      \/ R("OK", item.response) /\ item.response <= n
      \/ \E code \in Codes : R(code, 1)
      \/ /\ R("OK", EncodedLength(RegisteredApTitle) + 1)
         /\ EncodedLength(RegisteredApTitle) + 1 <= n
    <2>1. CASE item.command = "ident"
        BY <2>1 DEF ProcessPsemRequest
    <2>2. CASE item.command \in {"read", "read factory data"}
        BY <1>1, <2>2 DEF ProcessPsemRequest, Codes
    <2>3. CASE item.command = "offset read"
        <3>1. CASE item.response > n
            BY <2>3, <3>1 DEF ProcessPsemRequest, Codes
        <3>2. CASE item.response <= n
            <4>1. ~(item.response > n)
                BY <1>1, <3>2
            <4> QED
                BY <2>3, <3>2, <4>1 DEF ProcessPsemRequest
        <3> QED
            BY <1>1, <3>1, <3>2
    <2>4. CASE item.command \in {"write", "write vendor field", "disconnect"}
        BY <2>4 DEF ProcessPsemRequest, Codes
    <2>5. CASE item.command \in {"bad write", "long ident", "long disconnect"}
        BY <2>5 DEF ProcessPsemRequest, Codes
    <2>6. CASE item.command = "deregister"
        BY <2>6 DEF ProcessPsemRequest, Codes
    <2>7. CASE item.command = "refused disconnect"
        BY <2>7 DEF ProcessPsemRequest, Codes
    <2>8. CASE item.command \notin {"ident", "read", "read factory data", "offset read", "write",
                                    "write vendor field", "disconnect", "bad write",
                                    "long ident", "long disconnect", "refused disconnect",
                                    "deregister"}
        BY <2>8 DEF ProcessPsemRequest, Codes
    <2> QED
        BY <2>1, <2>2, <2>3, <2>4, <2>5, <2>6, <2>7, <2>8
<1>4. \A code \in Codes, length \in Nat :
         R(code, length) => x \in Responses /\ x.response = length
    BY ResponseIs
<1> HIDE DEF R
<1>5. "OK" \in Codes /\ IdentLength \in Nat /\ EncodedLength(RegisteredApTitle) + 1 \in Nat
    BY <1>2 DEF Codes, IdentLength
<1>6. CASE R("OK", IdentLength) /\ item.command = "ident"
    BY <1>4, <1>5, <1>6
<1>7. CASE R("OK", item.response) /\ item.response <= n
    BY <1>1, <1>4, <1>5, <1>7
<1>8. CASE \E code \in Codes : R(code, 1)
    BY <1>4, <1>8
<1>9. CASE /\ R("OK", EncodedLength(RegisteredApTitle) + 1)
           /\ EncodedLength(RegisteredApTitle) + 1 <= n
    BY <1>4, <1>5, <1>9
<1> QED
    BY <1>3, <1>6, <1>7, <1>8, <1>9

\* The sum of what responses take grows by what the next one takes.
LEMMA ItemsLengthGrows ==
    ASSUME NEW s \in Seq(Responses), NEW x \in Responses
    PROVE  /\ ItemsLength(s) \in Nat
           /\ Append(s, x) \in Seq(Responses)
           /\ ItemsLength(Append(s, x)) = ItemsLength(s) + Takes(x)
<1> DEFINE t == Append(s, x)
           f == [i \in 1..Len(s) |-> Takes(s[i])]
           g == [i \in 1..Len(t) |-> Takes(t[i])]
<1>1. /\ t \in Seq(Responses) /\ Len(s) \in Nat /\ Len(t) = Len(s) + 1
      /\ t[Len(s) + 1] = x
      /\ \A i \in 1..Len(s) : t[i] = s[i] /\ s[i] \in Responses
    OBVIOUS
<1>2. Takes(x) \in Nat /\ \A i \in 1..Len(s) : Takes(s[i]) \in Nat
    BY <1>1, TakesIsNatural
<1> HIDE DEF t
<1>3. f \in Seq(Nat) /\ Len(f) = Len(s)
    BY <1>1, <1>2
<1>4. g = Append(f, Takes(x))
    <2>1. Len(Append(f, Takes(x))) = Len(s) + 1 /\ Append(f, Takes(x)) \in Seq(Nat)
        BY <1>2, <1>3
    <2>2. \A i \in 1..(Len(s) + 1) :
             Append(f, Takes(x))[i] = IF i <= Len(s) THEN Takes(s[i]) ELSE Takes(x)
        BY <1>1, <1>2, <1>3
    <2>3. g \in Seq(Nat) /\ Len(g) = Len(s) + 1
          /\ \A i \in 1..(Len(s) + 1) : g[i] = IF i <= Len(s) THEN Takes(s[i]) ELSE Takes(x)
        BY <1>1, <1>2
    <2> HIDE DEF f, g
    <2> QED
        BY <2>1, <2>2, <2>3, SameSequence
<1>5. ItemsLength(s) = Total(f) /\ ItemsLength(t) = Total(g)
    BY DEF ItemsLength, Takes
<1> HIDE DEF f, g
<1>6. Total(f) \in Nat /\ Total(g) = Total(f) + Takes(x)
    BY <1>2, <1>3, <1>4, TotalIsNatural, TotalOfAppend
<1> QED
    BY <1>1, <1>5, <1>6 DEF t

-----------------------------------------------------------------------------
(* What has been done of the requests of a message *)

\* The requests among the first n items that are answered.
Answered(items, n) == {i \in 1..n : items[i].command # "response"}

\* One item more is one request more, unless it is a response itself.
LEMMA AnsweredGrows ==
    ASSUME NEW items, NEW n \in Nat
    PROVE  /\ Cardinality(Answered(items, n)) \in Nat
           /\ Cardinality(Answered(items, n + 1)) =
                 IF items[n + 1].command = "response" THEN Cardinality(Answered(items, n))
                 ELSE Cardinality(Answered(items, n)) + 1
<1> DEFINE A == Answered(items, n)
           B == Answered(items, n + 1)
<1>1. IsFiniteSet(A) /\ Cardinality(A) \in Nat
    <2>1. IsFiniteSet(1..n)
        BY FS_Interval
    <2>2. A \in SUBSET (1..n)
        BY DEF Answered
    <2> HIDE DEF A
    <2> QED
        BY <2>1, <2>2, FS_Subset, FS_CardinalityType
<1>2. n + 1 \notin A
    BY DEF Answered
<1>3. B = IF items[n + 1].command = "response" THEN A ELSE A \cup {n + 1}
    <2>1. \A i : i \in 1..(n + 1) <=> i \in 1..n \/ i = n + 1
        OBVIOUS
    <2> QED
        BY <2>1 DEF Answered
<1> HIDE DEF A, B
<1>4. Cardinality(A \cup {n + 1}) = Cardinality(A) + 1
    BY <1>1, <1>2, FS_AddElement
<1> QED
    BY <1>1, <1>3, <1>4 DEF A, B

\* Some response tells that its request failed.
Tells(responses) == \E i \in 1..Len(responses) : responses[i].code # "OK"

\* The responses of the first n items: what they take, and that an exception is told,
\* or left a request without a response.
Work == [items : Seq(Responses), length : Nat,
         error : BOOLEAN, full : BOOLEAN, registered : BOOLEAN]

Progress(items, n, done) ==
    /\ done \in Work
    /\ done.length = ItemsLength(done.items)
    /\ Len(done.items) <= Cardinality(Answered(items, n))
    /\ ~done.full => Len(done.items) = Cardinality(Answered(items, n))
    /\ done.error => \/ Tells(done.items)
                     \/ Len(done.items) < Cardinality(Answered(items, n))

\* The fields of what has been done.
LEMMA WorkFields ==
    ASSUME NEW done \in Work
    PROVE  /\ done.items \in Seq(Responses) /\ done.length \in Nat
           /\ done.error \in BOOLEAN /\ done.full \in BOOLEAN /\ done.registered \in BOOLEAN
BY DEF Work

\* One response more.
LEMMA OneResponseMore ==
    ASSUME NEW items, NEW n \in Nat, NEW done, Progress(items, n, done), ~done.full,
           items[n + 1].command # "response", NEW x \in Responses,
           NEW next \in Work,
           next.items = Append(done.items, x), next.length = done.length + Takes(x),
           next.error => done.error \/ x.code # "OK"
    PROVE  Progress(items, n + 1, next)
<1> DEFINE s == done.items
           t == next.items
           c == Cardinality(Answered(items, n))
           d == Cardinality(Answered(items, n + 1))
<1>1. /\ s \in Seq(Responses) /\ done.length = ItemsLength(s) /\ Len(s) = c
      /\ done.error => Tells(s) \/ Len(s) < c
    BY WorkFields DEF Progress
<1>2. c \in Nat /\ d = c + 1
    BY AnsweredGrows
<1>3. /\ t \in Seq(Responses) /\ next.length = ItemsLength(t)
    BY <1>1, ItemsLengthGrows
<1>4. /\ Len(t) = Len(s) + 1 /\ Len(s) \in Nat /\ t[Len(s) + 1] = x
      /\ \A i \in 1..Len(s) : t[i] = s[i]
    <2> HIDE DEF s, t
    <2>1. t = Append(s, x)
        BY DEF s, t
    <2> QED
        BY <1>1, <2>1
<1> HIDE DEF s, t, c, d
<1>5. ASSUME next.error PROVE Tells(t)
    <2>1. CASE x.code # "OK"
        <3>1. Len(s) + 1 \in 1..Len(t)
            BY <1>4
        <3> QED
            BY <1>4, <2>1, <3>1 DEF Tells
    <2>2. CASE done.error
        <3>1. PICK i \in 1..Len(s) : s[i].code # "OK"
            BY <1>1, <1>2, <2>2 DEF Tells
        <3>2. i \in 1..Len(t) /\ t[i] = s[i]
            BY <1>4, <3>1
        <3> QED
            BY <3>1, <3>2 DEF Tells
    <2> QED
        BY <1>5, <2>1, <2>2
<1>6. Len(t) = d
    BY <1>1, <1>2, <1>4
<1>7. d <= d
    BY <1>2
<1> QED
    BY <1>3, <1>5, <1>6, <1>7 DEF Progress, t, d

\* No response more: the item is a response itself, or there is no room.
LEMMA NoResponseMore ==
    ASSUME NEW items, NEW n \in Nat, NEW done, Progress(items, n, done),
           NEW x, x = [done EXCEPT !.error = TRUE, !.full = TRUE]
    PROVE  /\ items[n + 1].command = "response" \/ done.full => Progress(items, n + 1, done)
           /\ items[n + 1].command # "response" /\ ~done.full => Progress(items, n + 1, x)
           /\ x.length = done.length
<1> DEFINE s == done.items
           c == Cardinality(Answered(items, n))
           d == Cardinality(Answered(items, n + 1))
<1>1. /\ done \in Work /\ done.length = ItemsLength(s) /\ Len(s) <= c
      /\ ~done.full => Len(s) = c
      /\ done.error => Tells(s) \/ Len(s) < c
    BY DEF Progress
<1>2. /\ c \in Nat /\ d = IF items[n + 1].command = "response" THEN c ELSE c + 1
      /\ Len(s) \in Nat
    BY <1>1, AnsweredGrows, WorkFields
<1>3. /\ x \in Work /\ x.items = done.items /\ x.length = done.length
      /\ x.error = TRUE /\ x.full = TRUE
    BY <1>1 DEF Work
<1> HIDE DEF s, c, d
<1>4. ASSUME items[n + 1].command = "response" \/ done.full PROVE Progress(items, n + 1, done)
    <2>1. Len(s) <= d /\ (~done.full => Len(s) = d) /\ (Len(s) < c => Len(s) < d)
        BY <1>1, <1>2, <1>4
    <2> QED
        BY <1>1, <2>1 DEF Progress, s, d
<1>5. ASSUME items[n + 1].command # "response", ~done.full PROVE Progress(items, n + 1, x)
    <2>1. Len(s) <= d /\ Len(s) < d
        BY <1>1, <1>2, <1>5
    <2> QED
        BY <1>1, <1>3, <2>1 DEF Progress, s, d
<1> QED
    BY <1>3, <1>4, <1>5

\* One turn of the loop.  It stays within the 515 bytes, but for an identification.
LEMMA RequestIsProcessed ==
    ASSUME NEW items, NEW n \in Nat, items[n + 1] \in [command : STRING, response : Nat],
           NEW done, Progress(items, n, done),
           NEW next, next = ProcessEpsemRequest(done, items[n + 1])
    PROVE  /\ Progress(items, n + 1, next)
           /\ \/ done.length > MaxEpsemLength - 1
              \/ items[n + 1].command = "ident"
              \/ next.length <= MaxEpsemLength - 1
<1> DEFINE item == items[n + 1]
           room == MaxEpsemLength - 4 - done.length
           x    == ProcessPsemRequest(item, room, done.registered)
<1>1. /\ done \in Work /\ done.items \in Seq(Responses) /\ done.length \in Nat
      /\ done.error \in BOOLEAN /\ done.full \in BOOLEAN /\ done.registered \in BOOLEAN
      /\ MaxEpsemLength = 515 /\ IdentLength = 49
    BY WorkFields DEF Progress, MaxEpsemLength, IdentLength
<1>2. room \in Int /\ room = 511 - done.length
    BY <1>1
<1>3. next = IF done.full \/ item.command = "response" THEN done
             ELSE IF done.length >= MaxEpsemLength - 3
             THEN [done EXCEPT !.error = TRUE, !.full = TRUE]
             ELSE IF room < 5
             THEN [done EXCEPT !.items = Append(@, Response("ERR", 1)), !.length = @ + 2,
                               !.error = TRUE, !.full = TRUE]
             ELSE [done EXCEPT
                      !.items      = Append(@, x),
                      !.length     = @ + SizeOfLength(x.response) + x.response,
                      !.error      = @ \/ x.code # "OK",
                      !.registered = @ /\ ~(item.command = "deregister" /\ x.code = "OK")]
    BY DEF ProcessEpsemRequest
<1> HIDE DEF x, room
<1>4. CASE done.full \/ item.command = "response"
    <2>1. next = done
        BY <1>3, <1>4
    <2>2. PICK z : z = [done EXCEPT !.error = TRUE, !.full = TRUE]
        OBVIOUS
    <2>3. Progress(items, n + 1, done)
        BY <1>4, <2>2, NoResponseMore
    <2> QED
        BY <1>1, <2>1, <2>3
<1>5. CASE /\ ~done.full /\ item.command # "response"
           /\ done.length >= MaxEpsemLength - 3
    <2>1. next = [done EXCEPT !.error = TRUE, !.full = TRUE]
        BY <1>3, <1>5
    <2>2. Progress(items, n + 1, next) /\ next.length = done.length
        BY <1>5, <2>1, NoResponseMore
    <2> QED
        BY <1>1, <2>2
<1>6. CASE /\ ~done.full /\ item.command # "response"
           /\ ~(done.length >= MaxEpsemLength - 3) /\ room < 5
    <2> DEFINE y == Response("ERR", 1)
    <2>1. y \in Responses /\ y.response = 1 /\ y.code = "ERR"
        BY ResponseIs DEF Codes
    <2> HIDE DEF y
    <2>2. Takes(y) = 2 /\ Append(done.items, y) \in Seq(Responses) /\ done.length + 2 \in Nat
        BY <1>1, <2>1, TakesIsNatural
    <2>3. next = [done EXCEPT !.items = Append(@, y), !.length = @ + 2,
                              !.error = TRUE, !.full = TRUE]
        BY <1>3, <1>6 DEF y
    <2>4. PICK i \in Seq(Responses) : i = Append(done.items, y)
        BY <2>2
    <2>5. PICK l \in Nat : l = done.length + 2
        BY <2>2
    <2>6. next = [done EXCEPT !.items = i, !.length = l, !.error = TRUE, !.full = TRUE]
        BY <2>3, <2>4, <2>5
    <2>7. next \in Work /\ next.items = i /\ next.length = l
        BY <1>1, <2>6 DEF Work
    <2>8. Progress(items, n + 1, next)
        BY <1>6, <2>1, <2>2, <2>4, <2>5, <2>7, OneResponseMore
    <2> QED
        BY <1>1, <1>6, <2>5, <2>7, <2>8
<1>7. CASE /\ ~done.full /\ item.command # "response"
           /\ ~(done.length >= MaxEpsemLength - 3) /\ ~(room < 5)
    <2>1. /\ x \in Responses
          /\ x.response <= room \/ (item.command = "ident" /\ x.response = IdentLength)
        <3>1. PICK m \in Nat : m = room /\ m >= 5
            BY <1>2, <1>7
        <3>2. PICK b \in BOOLEAN : b = done.registered
            BY <1>1
        <3>3. x = ProcessPsemRequest(item, m, b)
            BY <3>1, <3>2 DEF x
        <3>4. item \in [command : STRING, response : Nat]
            OBVIOUS
        <3> HIDE DEF item
        <3>5. x \in Responses
            BY <3>1, <3>3, <3>4, PsemRequestIs
        <3>6. x.response <= m \/ (item.command = "ident" /\ x.response = IdentLength)
            BY <3>1, <3>3, <3>4, PsemRequestIs
        <3> QED
            BY <3>1, <3>5, <3>6
    <2>2. /\ Takes(x) \in Nat /\ Takes(x) <= x.response + 3
          /\ x.response < 128 => Takes(x) = x.response + 1
          /\ x.response \in Nat
          /\ Takes(x) = SizeOfLength(x.response) + x.response
        BY <2>1, TakesIsNatural DEF Responses, Takes
    <2>3. SizeOfLength(x.response) \in Nat
        BY <2>2, EncodedIsNatural
    <2>4. Append(done.items, x) \in Seq(Responses)
        BY <1>1, <2>1
    <2>5. PICK i \in Seq(Responses) : i = Append(done.items, x)
        BY <2>4
    <2>6. PICK l \in Nat : l = done.length + SizeOfLength(x.response) + x.response
        BY <1>1, <2>2, <2>3
    <2>7. PICK e \in BOOLEAN : e = (done.error \/ x.code # "OK")
        OBVIOUS
    <2>8. PICK g \in BOOLEAN :
             g = (done.registered /\ ~(item.command = "deregister" /\ x.code = "OK"))
        <3> DEFINE leaves == item.command = "deregister" /\ x.code = "OK"
        <3>1. CASE leaves
            <4>1. FALSE = (done.registered /\ ~leaves)
                BY <3>1
            <4> QED
                BY <4>1
        <3>2. CASE ~leaves
            <4>1. done.registered = (done.registered /\ ~leaves)
                BY <1>1, <3>2
            <4> QED
                BY <1>1, <4>1
        <3> QED
            BY <3>1, <3>2
    <2>9. next = [done EXCEPT !.items = i, !.length = l, !.error = e, !.registered = g]
        BY <1>3, <1>7, <2>5, <2>6, <2>7, <2>8
    <2>10. next \in Work /\ next.items = i /\ next.length = l /\ next.error = e
        <3>1. next \in Work
            BY <1>1, <2>9 DEF Work
        <3>2. next.items = i /\ next.length = l /\ next.error = e
            BY <1>1, <2>9 DEF Work
        <3> QED
            BY <3>1, <3>2
    <2>11. l = done.length + Takes(x)
        BY <1>1, <2>2, <2>3, <2>6
    <2>12. Progress(items, n + 1, next)
        BY <1>7, <2>1, <2>5, <2>7, <2>10, <2>11, OneResponseMore
    <2>13. item.command = "ident" \/ l <= 514
        <3>1. PICK q \in Nat : q = x.response
            BY <2>2
        <3>2. PICK k \in Nat : k = Takes(x)
            BY <2>2
        <3>3. PICK d \in Nat : d = done.length
            BY <1>1
        <3>4. k <= q + 3 /\ (q < 128 => k = q + 1) /\ l = d + k
            BY <2>2, <2>11, <3>1, <3>2, <3>3
        <3>5. q <= 511 - d \/ item.command = "ident"
            BY <1>1, <1>2, <2>1, <3>1, <3>3
        <3> HIDE DEF item
        <3>6. item.command = "ident" \/ l <= 514
            BY <3>4, <3>5
        <3> QED
            BY <3>3, <3>6
    <2> QED
        BY <1>1, <2>10, <2>12, <2>13
<1> QED
    BY <1>4, <1>5, <1>6, <1>7

\* Nothing has been done before the first request.
LEMMA NothingIsDone ==
    ASSUME NEW items, NEW isRegistered \in BOOLEAN
    PROVE  /\ Progress(items, 0, NothingDone(isRegistered))
           /\ NothingDone(isRegistered).length = 0
<1> DEFINE done == NothingDone(isRegistered)
<1>1. done \in Work /\ done.items = <<>> /\ done.length = 0 /\ done.error = FALSE
    BY DEF NothingDone, Work
<1>2. ItemsLength(<<>>) = 0
    <2>1. [i \in 1..Len(<<>>) |-> SizeOfLength(<<>>[i].response) + <<>>[i].response] = <<>>
        OBVIOUS
    <2> QED
        BY <2>1, TotalOfNothing DEF ItemsLength
<1>3. Cardinality(Answered(items, 0)) = 0
    <2>1. Answered(items, 0) = {}
        BY DEF Answered
    <2> QED
        BY <2>1, FS_EmptySet
<1>4. Len(<<>>) = 0
    OBVIOUS
<1> HIDE DEF done
<1>5. Progress(items, 0, done)
    BY <1>1, <1>2, <1>3, <1>4 DEF Progress
<1> QED
    BY <1>1, <1>5 DEF done

\* The members of a sequence.
LEMMA SequenceHas ==
    ASSUME NEW T, NEW s \in Seq(T)
    PROVE  Len(s) \in Nat /\ \A i \in 1..Len(s) : s[i] \in T
OBVIOUS

\* ... and all of them, one after the other.
LEMMA RequestsAreProcessed ==
    ASSUME NEW items \in Items, NEW isRegistered \in BOOLEAN
    PROVE  \A n \in 0..Len(items) :
              /\ Progress(items, n, ProcessFirst(items, isRegistered, n))
              /\ IdentHasRoom(items) =>
                    ProcessFirst(items, isRegistered, n).length <= MaxEpsemLength - 1
<1> DEFINE F(n) == ProcessFirst(items, isRegistered, n)
           P(n) == /\ Progress(items, n, F(n))
                   /\ IdentHasRoom(items) => F(n).length <= MaxEpsemLength - 1
           S == {n \in Nat : n <= Len(items) => P(n)}
<1>1. /\ Len(items) \in Nat
      /\ \A i \in 1..Len(items) : items[i] \in [command : STRING, response : Nat]
    BY SequenceHas DEF Items
<1>2. MaxEpsemLength = 515 /\ IdentLength = 49
    BY DEF MaxEpsemLength, IdentLength
<1>3. 0 \in S
    <2>1. F(0) = NothingDone(isRegistered)
        BY ProcessOneMore
    <2> HIDE DEF F
    <2> QED
        BY <1>2, <2>1, NothingIsDone
<1>4. ASSUME NEW n \in Nat, n \in S PROVE n + 1 \in S
    <2>1. SUFFICES ASSUME n + 1 <= Len(items) PROVE P(n + 1)
        OBVIOUS
    <2>2. P(n) /\ n + 1 \in 1..Len(items)
        BY <1>1, <1>4, <2>1
    <2>3. F(n + 1) = ProcessEpsemRequest(F(n), items[n + 1])
        BY ProcessOneMore
    <2>4. items[n + 1] \in [command : STRING, response : Nat]
        BY <1>1, <2>2
    <2> HIDE DEF F
    <2>5. /\ Progress(items, n + 1, F(n + 1))
          /\ \/ F(n).length > MaxEpsemLength - 1
             \/ items[n + 1].command = "ident"
             \/ F(n + 1).length <= MaxEpsemLength - 1
        BY <2>2, <2>3, <2>4, RequestIsProcessed
    <2>6. ASSUME IdentHasRoom(items), items[n + 1].command = "ident"
          PROVE  F(n + 1).length < MaxEpsemLength
        BY <2>2, <2>6 DEF IdentHasRoom, F
    <2>7. F(n).length \in Nat /\ F(n + 1).length \in Nat
        BY <2>2, <2>5, WorkFields DEF Progress
    <2> QED
        BY <1>2, <2>2, <2>5, <2>6, <2>7
<1> HIDE DEF S
<1>5. Nat \subseteq S
    BY <1>3, <1>4, Induction
<1> QED
    BY <1>1, <1>5 DEF S

\* The responses to the requests of a message.
LEMMA ResponsesAre ==
    ASSUME NEW items \in Items, NEW isRegistered \in BOOLEAN,
           NEW done, done = ProcessEpsemRequests(items, isRegistered)
    PROVE  /\ Progress(items, Len(items), done)
           /\ IdentHasRoom(items) => done.length <= MaxEpsemLength - 1
<1>1. Len(items) \in Nat
    BY SequenceHas DEF Items
<1>2. Len(items) \in 0..Len(items)
    BY <1>1
<1> QED
    BY <1>2, RequestsAreProcessed DEF ProcessEpsemRequests

-----------------------------------------------------------------------------
(* What an answer takes *)

\* It fits the segmenter's buffer, and moving the epsem down does not reach the
\* elements before it.
TakesNoMore(a) ==
    /\ LengthOf(Front(a.elements)) + 13 <= MaxAcseOverhead + 1
    /\ FullLength(a) <= MaxAcseLength

\* Replacing values by values of the same length keeps the size.
LEMMA SameTakesNoMore ==
    ASSUME NEW a, NEW b, SameLengths(a.elements, b.elements), Len(a.elements) > 0, TakesNoMore(a)
    PROVE  TakesNoMore(b)
<1>1. /\ LengthOf(a.elements) = LengthOf(b.elements)
      /\ LengthOf(Front(a.elements)) = LengthOf(Front(b.elements))
    BY SameLengthsTakeTheSame, FrontsTakeTheSame
<1> QED
    BY <1>1 DEF TakesNoMore, FullLength

\* The header takes 103 bytes at most.
LEMMA HeaderTakes ==
    ASSUME NEW m, NEW auth, NEW id, NEW h, IsHeader(m, auth, id, h)
    PROVE  LengthOf(h.elements) \in 0..103
<1>1. ApTitleLength \in 1..22
    BY NodeAssumption
<1>2. LengthOf(h.elements) \in 0..HeaderLength
    BY DEF IsHeader, Part
<1> PICK L \in 1..22 : L = ApTitleLength
    BY <1>1
<1>3. HeaderLength = 59 + 2 * L
    BY DEF HeaderLength
<1> QED
    BY <1>2, <1>3

\* With an epsem within its bound, the whole message fits.
LEMMA InformedTakes ==
    ASSUME NEW m, NEW auth, NEW id, NEW h, IsHeader(m, auth, id, h),
           NEW epsem, epsem.length \in 0..(MaxEpsemLength - 1), NEW wantMac \in BOOLEAN,
           NEW w, w = SetUserInformation(h, epsem, wantMac)
    PROVE  IsMessage(w) /\ Len(w.elements) > 0 /\ TakesNoMore(w)
<1> DEFINE e == Information(h, epsem, wantMac)
           s == h.elements
<1>1. epsem.length \in Nat /\ epsem.length <= 514
    BY DEF MaxEpsemLength
<1>2. IsMessage(w) /\ w.elements = s \o <<e>>
    BY <1>1, InformationIsBehind
<1>3. IsList(s) /\ IsElement(e)
    BY <1>1, UserInformationIsAdded DEF IsHeader, IsMessage
<1>4. e.length \in Nat /\ e.length <= epsem.length + 18
    <2>1. /\ InformationLength(h, ContentLength(epsem, wantMac)) \in Nat
          /\ InformationLength(h, ContentLength(epsem, wantMac)) <= epsem.length + 18
        BY <1>1, InformationLengthIs
    <2> QED
        BY <2>1 DEF Information, Element
<1>5. LengthOf(s) \in 0..103
    BY HeaderTakes
<1> HIDE DEF e, s
<1>6. /\ LengthOf(Front(s \o <<e>>)) = LengthOf(s)
      /\ LengthOf(s \o <<e>>) = LengthOf(s) + Encoded(e.length)
      /\ Len(s \o <<e>>) > 0
    BY <1>3, FrontOfConcat
<1>7. e.length <= 532 /\ Encoded(e.length) \in Nat /\ Encoded(e.length) <= 536
    BY <1>1, <1>4, EncodedIsNatural
<1>8. LengthOf(w.elements) \in Nat /\ LengthOf(w.elements) <= 639
    <2>1. LengthOf(w.elements) = LengthOf(s) + Encoded(e.length)
        BY <1>2, <1>6
    <2> QED
        BY <1>5, <1>7, <2>1
<1>9. FullLength(w) \in Nat /\ FullLength(w) <= 643
    BY <1>8, EncodedIsNatural DEF FullLength
<1>10. LengthOf(Front(w.elements)) + 13 <= 129
    <2>1. LengthOf(Front(w.elements)) = LengthOf(s)
        BY <1>2, <1>6
    <2> QED
        BY <1>5, <2>1
<1>11. MaxAcseOverhead + 1 = 129 /\ MaxAcseLength = 643
    BY DEF MaxAcseOverhead, MaxAcseLength, MaxEpsemLength
<1> QED
    BY <1>2, <1>6, <1>9, <1>10, <1>11 DEF TakesNoMore

\* The answer to requests is built and sent, and is not too large.
LEMMA ProtectTakes ==
    ASSUME NEW m, Answerable(m), NEW id, NEW epsem, epsem.length \in 0..(MaxEpsemLength - 1),
           NEW a, a = Protect(m, epsem, ResponseHeader(m, id))
    PROVE  /\ UserInformationFits(ResponseHeader(m, id), epsem, MaxAcseLength)
           /\ TakesNoMore(a)
<1> DEFINE h == ResponseHeader(m, id)
           wantMac == IsEncrypted(m)
           w == SetUserInformation(h, epsem, wantMac)
<1>1. IsHeader(m, AuthOf(m), id, h)
    BY ResponseHeaderIs
<1>2. wantMac \in BOOLEAN
    BY DEF IsEncrypted, IsEncryptedOrAuthenticated
<1>3. \/ a = w
      \/ \E tag, value : a = Replace(w, tag, value)
    BY DEF Protect, Encrypt, UpdateAuthValue
<1> HIDE DEF h, wantMac
<1>4. IsMessage(w) /\ Len(w.elements) > 0 /\ TakesNoMore(w)
    BY <1>1, <1>2, InformedTakes
<1> HIDE DEF w
<1>5. TakesNoMore(a)
    <2>1. ASSUME NEW tag, NEW value, a = Replace(w, tag, value) PROVE TakesNoMore(a)
        BY <1>4, <2>1, ReplaceKeepsLengths, SameTakesNoMore
    <2> QED
        BY <1>3, <1>4, <2>1
<1>6. UserInformationFits(h, epsem, MaxAcseLength)
    <2>1. LengthOf(h.elements) \in 0..103
        BY <1>1, HeaderTakes
    <2>2. epsem.length \in 0..514 /\ MaxAcseLength = 643
        BY DEF MaxAcseOverhead, MaxAcseLength, MaxEpsemLength
    <2> QED
        BY <2>1, <2>2 DEF UserInformationFits
<1> QED
    BY <1>5, <1>6 DEF h

\* An error code in plain text: what MakeSimpleResponseMessage builds.
IsRefusal(m, code, a) ==
    /\ IsReadBy(m, a)
    /\ AnswerCodes(a) = {code}
    /\ ItemsLength(AnswerItems(a)) + 1 <= MaxEpsemLength
    /\ TakesNoMore(a)

Ids == 1..(IdLimit - 1)

\* An error code in plain text is read, is the only response and fits.
LEMMA RefusalIsRead ==
    ASSUME NEW m, Answerable(m), NEW code, NEW id \in Ids,
           NEW a, a = SimpleResponse(m, code, id)
    PROVE  IsRefusal(m, code, a)
<1> DEFINE length == IF code = "RSTL" THEN 6 ELSE 2
           x == Response(code, length - 1)
           epsem == ResponseEpsem(<<x>>, length)
           h == Header(m, OwnApTitle, <<>>, id)
<1>1. IsHeader(m, <<>>, id, h)
    BY OwnTitleIsValid, HeaderIs DEF IsAuth
<1>2. /\ epsem.length \in 0..6 /\ epsem.items = <<x>> /\ epsem.valid
      /\ x.code = code /\ x.response \in {1, 5}
    BY DEF ResponseEpsem, Response
<1>3. a = SetUserInformation(h, epsem, FALSE)
    BY DEF SimpleResponse
<1> HIDE DEF length, epsem, x, h
<1>4. Reads(m, id, epsem, a) /\ ~HasTag(a, "AC")
    <2>1. epsem.length \in Nat
        BY <1>2
    <2> QED
        BY <1>1, <1>3, <2>1, InformedReads
<1>5. TakesNoMore(a)
    <2>1. epsem.length \in 0..(MaxEpsemLength - 1)
        BY <1>2 DEF MaxEpsemLength
    <2> QED
        BY <1>1, <1>3, <2>1, InformedTakes
<1>6. IsSecure(a, Keys)
    BY <1>4 DEF IsSecure, IsEncrypted, IsAuthenticated, IsEncryptedOrAuthenticated
<1>7. IsReadBy(m, a)
    BY <1>2, <1>4, <1>6, ReadsAreRead DEF IsReadBy, Ids
<1>8. AnswerItems(a) = <<x>>
    BY <1>2, <1>4 DEF Reads, AnswerItems
<1>9. AnswerCodes(a) = {code}
    <2>1. DOMAIN <<x>> = {1} /\ <<x>>[1] = x
        OBVIOUS
    <2> QED
        BY <1>2, <1>8, <2>1 DEF AnswerCodes
<1>10. ItemsLength(<<x>>) + 1 <= MaxEpsemLength
    <2> DEFINE n == SizeOfLength(x.response) + x.response
    <2>1. n \in Nat /\ n <= 6
        BY <1>2 DEF SizeOfLength
    <2>2. [i \in 1..Len(<<x>>) |-> SizeOfLength(<<x>>[i].response) + <<x>>[i].response]
             = Append(<<>>, n)
        OBVIOUS
    <2> HIDE DEF n
    <2>3. <<>> \in Seq(Nat)
        OBVIOUS
    <2>4. Total(Append(<<>>, n)) = 0 + n
        BY <2>1, <2>3, TotalOfAppend, TotalOfNothing
    <2> QED
        BY <2>1, <2>2, <2>4 DEF ItemsLength, MaxEpsemLength
<1> QED
    BY <1>5, <1>7, <1>8, <1>9, <1>10 DEF IsRefusal

-----------------------------------------------------------------------------
(* The requests *)

\* The requests of a message that were understood.
EpsemOf(m) == Find(m, "BE").value.epsem

\* A message that passed the checks of the receiver can be answered.
LEMMA UnderstoodIsAnswerable ==
    ASSUME NEW r \in Understood
    PROVE  /\ Answerable(Request(r))
           /\ EpsemOf(Request(r)).valid => EpsemOf(Request(r)).items \in Items
<1> DEFINE m == RequestMessages[r]
           x == Request(r)
<1>1. r \in Requests /\ StandardOf(m) # "none" /\ x = [m EXCEPT !.standard = StandardOf(m)]
    BY DEF Understood, Request, RecognizedMessages, Recognized
<1>2. /\ m = Message(m.standard, m.elements)
      /\ EpsemOf(m).valid => EpsemOf(m).items \in Items
    BY <1>1, RequestsAssumption DEF EpsemOf, Items
<1> HIDE DEF m, x
<1>3. x.standard = StandardOf(m) /\ x.elements = m.elements
    <2>1. m = [standard |-> m.standard, elements |-> m.elements]
        BY <1>2 DEF Message
    <2> QED
        BY <1>1, <2>1
<1>4. \A tag : (HasTag(x, tag) <=> HasTag(m, tag)) /\ Find(x, tag) = Find(m, tag)
    BY <1>3 DEF HasTag, Find
<1>5. x.standard \in Standards /\ SharedElementsOK(m, x.standard)
    BY <1>1, <1>3 DEF StandardOf, IsValidFormat2006, IsValidFormat2008, Standards
<1>6. HasTag(m, "A8") /\ (HasTag(m, "A6") => ValidateACSEFormat(Find(m, "A6").value, x.standard))
    BY <1>5 DEF SharedElementsOK
<1>7. Answerable(x)
    BY <1>4, <1>5, <1>6 DEF Answerable, CallingApTitle, Value
<1>8. EpsemOf(x) = EpsemOf(m)
    BY <1>4 DEF EpsemOf
<1> QED
    BY <1>2, <1>7, <1>8 DEF x

-----------------------------------------------------------------------------
(* What is answered *)

\* What an answer is, when it carries what the requests obtained.
IsAnswer(m, done, a) ==
    /\ IsReadBy(m, a) /\ ProtectedAs(m, a)
    /\ AnswerItems(a) = done.items
    /\ done.length <= MaxEpsemLength - 1 => TakesNoMore(a)

\* An answer to requests is read, is protected as its request, and fits.
LEMMA AnswerIsRead ==
    ASSUME NEW m, Answerable(m), IsSecure(m, Keys), NEW id \in Ids,
           NEW done, done.length \in Nat,
           NEW epsem, epsem = ResponseEpsem(done.items, done.length),
           NEW a, a = Protect(m, epsem, ResponseHeader(m, id))
    PROVE  /\ IsAnswer(m, done, a)
           /\ done.length <= MaxEpsemLength - 1 =>
                 UserInformationFits(ResponseHeader(m, id), epsem, MaxAcseLength)
<1>1. epsem.length = done.length /\ epsem.items = done.items /\ epsem.valid
    BY DEF ResponseEpsem
<1>2. Reads(m, id, epsem, a) /\ ProtectedAs(m, a)
    BY <1>1, ProtectIsRead
<1>3. IsReadBy(m, a)
    BY <1>1, <1>2, ReadsAreRead DEF IsReadBy, Ids, ProtectedAs
<1>4. AnswerItems(a) = done.items
    BY <1>1, <1>2 DEF Reads, AnswerItems
<1>5. ASSUME done.length <= MaxEpsemLength - 1
      PROVE  /\ TakesNoMore(a)
             /\ UserInformationFits(ResponseHeader(m, id), epsem, MaxAcseLength)
    <2>1. epsem.length \in 0..(MaxEpsemLength - 1)
        BY <1>1, <1>5 DEF MaxEpsemLength
    <2> QED
        BY <2>1, ProtectTakes
<1> QED
    BY <1>2, <1>3, <1>4, <1>5 DEF IsAnswer

\* The answers to a message: none, an error code, one answer, or none of the size of
\* the buffer and a code or two.
Refused(m, codes, sent) ==
    \/ \E a : sent = <<a>> /\ \E code \in codes : IsRefusal(m, code, a)
    \/ \E a, b : /\ sent = <<a, b>>
                 /\ \E code \in codes : IsRefusal(m, code, a)
                 /\ \E code \in codes : IsRefusal(m, code, b)

Answered1(m, done, sent) == \E a : sent = <<a>> /\ IsAnswer(m, done, a)

IsNextId(n) == n \in 0..(IdLimit - 1)

\* The id of an answer is never 0 nor the limit, and neither is the next one.
LEMMA IdsAreUsed ==
    ASSUME NEW n, IsNextId(n)
    PROVE  IdUsed(n) \in Ids /\ IsNextId(NextId(n))
<1>1. IdLimit \in Nat /\ IdLimit > 1
    BY NodeAssumption
<1>2. IdUsed(n) \in 1..(IdLimit - 1)
    BY <1>1 DEF IdUsed, IsNextId
<1> PICK k \in 1..(IdLimit - 1) : k = IdUsed(n)
    BY <1>2
<1>3. (k + 1) % IdLimit \in 0..(IdLimit - 1)
    BY <1>1
<1> QED
    BY <1>2, <1>3 DEF NextId, Ids, IsNextId

ProcessCodes == {"OK", "IAR"}

\* What is sent for requests that were processed.
LEMMA AnswersAre ==
    ASSUME NEW m, Answerable(m), IsSecure(m, Keys), IsNextId(nextApInvocationId),
           processMessageResponse \in ProcessCodes,
           NEW done, done.length \in Nat,
           NEW built, built = Answers(m, ResponseEpsem(done.items, done.length))
    PROVE  /\ IsNextId(built.next)
           /\ Answered1(m, done, built.sent) \/ Refused(m, {"RSTL", "IAR"}, built.sent)
           /\ done.length <= MaxEpsemLength - 1 => Answered1(m, done, built.sent)
<1> DEFINE epsem  == ResponseEpsem(done.items, done.length)
           first  == nextApInvocationId
           header == ResponseHeader(m, IdUsed(first))
           second == NextId(first)
           third  == NextId(second)
           a == Protect(m, epsem, header)
           b == SimpleResponse(m, "RSTL", IdUsed(second))
           c == SimpleResponse(m, processMessageResponse, IdUsed(third))
           fits == UserInformationFits(header, epsem, MaxAcseLength)
<1>1. built = IF fits
              THEN [sent |-> <<a>>, next |-> second, fits |-> TRUE]
              ELSE IF processMessageResponse = "OK"
              THEN [sent |-> <<b>>, next |-> third, fits |-> FALSE]
              ELSE [sent |-> <<b, c>>, next |-> NextId(third), fits |-> FALSE]
    BY DEF Answers
<1>2. IdUsed(first) \in Ids /\ IsNextId(second)
    BY IdsAreUsed
<1> HIDE DEF second
<1>3. IdUsed(second) \in Ids /\ IsNextId(third)
    BY <1>2, IdsAreUsed
<1> HIDE DEF third
<1>4. IdUsed(third) \in Ids /\ IsNextId(NextId(third))
    BY <1>3, IdsAreUsed
<1>5. IsAnswer(m, done, a) /\ (done.length <= MaxEpsemLength - 1 => fits)
    BY <1>2, AnswerIsRead
<1>6. IsRefusal(m, "RSTL", b) /\ IsRefusal(m, processMessageResponse, c)
    BY <1>3, <1>4, RefusalIsRead
<1> HIDE DEF a, b, c, fits
<1>7. CASE fits
    <2>1. built.sent = <<a>> /\ built.next = second
        BY <1>1, <1>7
    <2> QED
        BY <1>2, <1>5, <2>1 DEF Answered1
<1>8. CASE ~fits /\ processMessageResponse = "OK"
    <2>1. built.sent = <<b>> /\ built.next = third
        BY <1>1, <1>8
    <2> QED
        BY <1>3, <1>5, <1>6, <1>8, <2>1 DEF Refused
<1>9. CASE ~fits /\ processMessageResponse # "OK"
    <2>1. built.sent = <<b, c>> /\ built.next = NextId(third)
        BY <1>1, <1>9
    <2>2. processMessageResponse = "IAR"
        BY <1>9 DEF ProcessCodes
    <2>3. Refused(m, {"RSTL", "IAR"}, <<b, c>>)
        BY <1>6, <2>2 DEF Refused
    <2> QED
        BY <1>4, <1>5, <1>9, <2>1, <2>3
<1> QED
    BY <1>7, <1>8, <1>9

\* What was done of the requests of a message.
DoneOf(m, isRegistered) == ProcessEpsemRequests(EpsemOf(m).items, isRegistered)

\* The answers to one that wants one, and to one that does not.
Served(m, done, sent) ==
    \/ ~WantsAnswer(m, done) /\ sent = <<>>
    \/ /\ WantsAnswer(m, done)
       /\ Answered1(m, done, sent) \/ Refused(m, {"RSTL", "IAR"}, sent)
       /\ done.length <= MaxEpsemLength - 1 => Answered1(m, done, sent)

\* The answers to a message that was executed.
ExecutedAs(m, sent) ==
    \/ IsResponse(m) /\ sent = <<>>
    \/ /\ ~IsResponse(m) /\ ~EpsemOf(m).valid
       /\ \E a : sent = <<a>> /\ IsRefusal(m, "IAR", a)
    \/ /\ ~IsResponse(m) /\ EpsemOf(m).valid
       /\ \E isRegistered \in BOOLEAN : Served(m, DoneOf(m, isRegistered), sent)

Trusted(r) == r \in Secure /\ ~MustBeSecured(Request(r))

\* The answers to a message, by what became of it.
Given(r, outcome, sent) ==
    \/ outcome = "dropped" /\ sent = <<>>
    \/ outcome = "refused" /\ \E a : sent = <<a>> /\ IsRefusal(Request(r), "SME", a)
    \/ outcome = "executed" /\ Trusted(r) /\ ExecutedAs(Request(r), sent)

\* The answers are those to the last message, and the server is ready for the next.
AnswersInv ==
    /\ registered \in BOOLEAN
    /\ IsNextId(nextApInvocationId)
    /\ processMessageResponse \in ProcessCodes
    /\ available # Nobody => Trusted(available)
    /\ log = <<>> => answers = <<>>
    /\ log # <<>> => Given(log[Len(log)].request, log[Len(log)].outcome, answers)

\* A message that is noted is the last one.
LEMMA NotedIsLast ==
    ASSUME log \in Seq(LogEntry), time \in Nat, NEW r \in Understood,
           NEW outcome \in {"executed", "dropped", "refused"}, NEW sent,
           Note(r, outcome, sent), UNCHANGED requireEncryption, Given(r, outcome, sent)
    PROVE  /\ log' # <<>>
           /\ Given(log[Len(log)].request, log[Len(log)].outcome, answers)'
<1> DEFINE x == [request |-> r, at |-> time, outcome |-> outcome]
<1>1. x \in LogEntry /\ log' = Append(log, x) /\ answers' = sent
    BY DEF LogEntry, Note, Understood
<1>2. x.request = r /\ x.outcome = outcome
    OBVIOUS
<1> HIDE DEF x
<1>3. Len(log') = Len(log) + 1 /\ log'[Len(log) + 1] = x /\ Len(log) \in Nat
    BY <1>1, LogGrows
<1>4. log' # <<>>
    BY <1>3
<1>5. log'[Len(log')].request = r /\ log'[Len(log')].outcome = outcome
    BY <1>2, <1>3
<1>6. Given(r, outcome, sent)'
    BY DEF Given, Trusted, MustBeSecured
<1> QED
    BY <1>1, <1>4, <1>5, <1>6 DEF Given, Trusted, MustBeSecured

\* The turn of the loop that finds a message.
LEMMA HandledIsAnswered ==
    ASSUME Types, AnswersInv, HandleMessage
    PROVE  AnswersInv'
<1> DEFINE m == Request(available)
           e == EpsemOf(m)
<1>1. /\ available \in Understood /\ Trusted(available) /\ available' = Nobody
      /\ UNCHANGED <<time, requireEncryption>>
      /\ DropDuplicate(m) \/ IgnoreResponse(m) \/ RefuseEpsem(m) \/ Serve(m)
    BY DEF HandleMessage, Types, AnswersInv
<1>2. /\ Answerable(m) /\ (e.valid => e.items \in Items)
      /\ IsSecure(m, Keys)
    BY <1>1, UnderstoodIsAnswerable DEF Trusted, Secure
<1>3. registered \in BOOLEAN /\ IsNextId(nextApInvocationId) /\ processMessageResponse \in ProcessCodes
    BY DEF AnswersInv
<1>4. IdUsed(nextApInvocationId) \in Ids /\ IsNextId(NextId(nextApInvocationId))
    BY <1>3, IdsAreUsed
<1> HIDE DEF m
<1>5. ASSUME NEW outcome \in {"executed", "dropped", "refused"}, NEW sent,
             Note(available, outcome, sent), Given(available, outcome, sent),
             registered' \in BOOLEAN, IsNextId(nextApInvocationId)',
             processMessageResponse' \in ProcessCodes
      PROVE  AnswersInv'
    <2>1. log' # <<>> /\ Given(log[Len(log)].request, log[Len(log)].outcome, answers)'
        BY <1>1, <1>5, NotedIsLast DEF Types
    <2> QED
        BY <1>1, <1>5, <2>1 DEF AnswersInv
<1>6. ASSUME NEW sent, Note(available, "executed", sent), ExecutedAs(m, sent),
             registered' \in BOOLEAN, IsNextId(nextApInvocationId)',
             processMessageResponse' \in ProcessCodes
      PROVE  AnswersInv'
    <2>1. Given(available, "executed", sent)
        BY <1>1, <1>6 DEF Given, m
    <2> QED
        BY <1>5, <1>6, <2>1
<1>7. CASE DropDuplicate(m)
    <2>1. /\ Note(available, "dropped", <<>>)
          /\ UNCHANGED <<registered, nextApInvocationId, processMessageResponse>>
        BY <1>7 DEF DropDuplicate
    <2>2. Given(available, "dropped", <<>>)
        BY DEF Given
    <2> QED
        BY <1>3, <1>5, <2>1, <2>2 DEF IsNextId
<1>8. CASE IgnoreResponse(m)
    <2>1. /\ Note(available, "executed", <<>>) /\ processMessageResponse' = "OK"
          /\ UNCHANGED <<registered, nextApInvocationId>> /\ IsResponse(m)
        BY <1>8 DEF IgnoreResponse
    <2>2. ExecutedAs(m, <<>>)
        BY <2>1 DEF ExecutedAs
    <2> QED
        BY <1>3, <1>6, <2>1, <2>2 DEF IsNextId, ProcessCodes
<1>9. CASE RefuseEpsem(m)
    <2> DEFINE a == SimpleResponse(m, "IAR", IdUsed(nextApInvocationId))
    <2>1. /\ Note(available, "executed", <<a>>) /\ processMessageResponse' = "IAR"
          /\ nextApInvocationId' = NextId(nextApInvocationId)
          /\ UNCHANGED registered /\ ~IsResponse(m) /\ ~e.valid
        BY <1>9 DEF RefuseEpsem, EpsemOf
    <2>2. IsRefusal(m, "IAR", a)
        BY <1>2, <1>4, RefusalIsRead
    <2> HIDE DEF a, e
    <2>3. ExecutedAs(m, <<a>>)
        BY <2>1, <2>2 DEF ExecutedAs, e
    <2> QED
        BY <1>3, <1>4, <1>6, <2>1, <2>3 DEF IsNextId, ProcessCodes
<1>10. CASE Serve(m)
    <2> DEFINE done == DoneOf(m, registered)
    <2>1. /\ ~IsResponse(m) /\ e.valid /\ registered' = done.registered
          /\ ServeSilently(m, done) \/ ServeAndAnswer(m, done)
        BY <1>10 DEF Serve, EpsemOf, DoneOf
    <2>2. Progress(e.items, Len(e.items), done)
        BY <1>2, <1>3, <2>1, ResponsesAre DEF DoneOf
    <2>3. done.length \in Nat /\ done.registered \in BOOLEAN
        BY <2>2, WorkFields DEF Progress
    <2>4. ASSUME NEW sent, Served(m, done, sent) PROVE ExecutedAs(m, sent)
        BY <1>3, <2>1, <2>4 DEF ExecutedAs
    <2> HIDE DEF done, e
    <2>5. CASE ServeSilently(m, done)
        <3>1. /\ ~WantsAnswer(m, done) /\ processMessageResponse' = "OK"
              /\ Note(available, "executed", <<>>) /\ UNCHANGED nextApInvocationId
            BY <2>5 DEF ServeSilently
        <3>2. Served(m, done, <<>>)
            BY <3>1 DEF Served
        <3> QED
            BY <1>3, <1>6, <2>1, <2>3, <2>4, <3>1, <3>2 DEF IsNextId, ProcessCodes
    <2>6. CASE ServeAndAnswer(m, done)
        <3> DEFINE built == Answers(m, ResponseEpsem(done.items, done.length))
        <3>1. /\ WantsAnswer(m, done) /\ Note(available, "executed", built.sent)
              /\ nextApInvocationId' = built.next /\ UNCHANGED processMessageResponse
            BY <2>6 DEF ServeAndAnswer
        <3>2. /\ IsNextId(built.next)
              /\ Answered1(m, done, built.sent) \/ Refused(m, {"RSTL", "IAR"}, built.sent)
              /\ done.length <= MaxEpsemLength - 1 => Answered1(m, done, built.sent)
            BY <1>2, <1>3, <2>3, AnswersAre
        <3> HIDE DEF built
        <3>3. Served(m, done, built.sent)
            BY <3>1, <3>2 DEF Served
        <3>4. IsNextId(nextApInvocationId)'
            BY <3>1, <3>2 DEF IsNextId
        <3>5. ExecutedAs(m, built.sent)
            BY <2>4, <3>3
        <3> QED
            BY <1>3, <1>6, <2>1, <2>3, <3>1, <3>4, <3>5
    <2> QED
        BY <2>1, <2>5, <2>6
<1> QED
    BY <1>1, <1>7, <1>8, <1>9, <1>10

\* Every step leaves the answers to the last message, and is ready for the next.
LEMMA NextKeepsAnswersInv ==
    ASSUME Types, AnswersInv, [Next]_vars
    PROVE  AnswersInv'
<1>1. ASSUME UNCHANGED <<registered, requireEncryption, nextApInvocationId,
                         processMessageResponse, log, answers>>,
             available' = available \/ Trusted(available')
      PROVE  AnswersInv'
    BY <1>1 DEF AnswersInv, IsNextId, Trusted, MustBeSecured, Given
<1>2. ASSUME NEW r \in Requests, ReceiveMessage(r) PROVE AnswersInv'
    <2>1. /\ UNCHANGED <<registered, requireEncryption, nextApInvocationId,
                         processMessageResponse, log, answers>>
          /\ available' = r /\ r \in Secure /\ ~MustBeSecured(Request(r))
        BY <1>2 DEF ReceiveMessage, Received
    <2> QED
        BY <1>1, <2>1 DEF Trusted
<1>3. ASSUME NEW r \in Requests, RefuseInsecure(r) PROVE AnswersInv'
    <2> DEFINE a == SimpleResponse(Request(r), "SME", IdUsed(nextApInvocationId))
    <2>1. /\ r \in Understood /\ Note(r, "refused", <<a>>)
          /\ nextApInvocationId' = NextId(nextApInvocationId)
          /\ UNCHANGED <<registered, requireEncryption, available, processMessageResponse>>
        BY <1>3 DEF RefuseInsecure, Received
    <2>2. IdUsed(nextApInvocationId) \in Ids /\ IsNextId(NextId(nextApInvocationId))
        BY IdsAreUsed DEF AnswersInv
    <2>3. IsRefusal(Request(r), "SME", a)
        BY <2>1, <2>2, UnderstoodIsAnswerable, RefusalIsRead
    <2> HIDE DEF a
    <2>4. Given(r, "refused", <<a>>)
        BY <2>3 DEF Given
    <2>5. log' # <<>> /\ Given(log[Len(log)].request, log[Len(log)].outcome, answers)'
        BY <2>1, <2>4, NotedIsLast DEF Types
    <2>6. available' # Nobody => Trusted(available)'
        BY <2>1 DEF AnswersInv, Trusted, MustBeSecured
    <2>7. IsNextId(nextApInvocationId)'
        BY <2>1, <2>2 DEF IsNextId
    <2> QED
        BY <2>1, <2>5, <2>6, <2>7 DEF AnswersInv
<1>4. CASE HandleMessage
    BY <1>4, HandledIsAnswered
<1>5. CASE SendMessageComplete
    BY <1>1, <1>5 DEF SendMessageComplete
<1>6. CASE Tick
    BY <1>1, <1>6 DEF Tick
<1>7. CASE UNCHANGED vars
    BY <1>1, <1>7 DEF vars
<1> QED
    BY <1>2, <1>3, <1>4, <1>5, <1>6, <1>7 DEF Next

\* The answers are those to the last message, each built as its request asks.
LEMMA AnswersAreKept == Spec => []AnswersInv
<1>1. Init => AnswersInv
    BY NodeAssumption DEF Init, AnswersInv, IsNextId, ProcessCodes
<1>2. Inv /\ AnswersInv /\ [Next]_vars => AnswersInv'
    BY NextKeepsAnswersInv DEF Inv
<1> QED
    BY <1>1, <1>2, ServerInvariant, PTL DEF Spec

-----------------------------------------------------------------------------
(* What every answer is *)

\* An answer carries what was done, or an error code if that is too large.
CarriesOrRefuses(m, done, a) ==
    \/ IsAnswer(m, done, a)
    \/ /\ ~(done.length <= MaxEpsemLength - 1)
       /\ \E code \in {"RSTL", "IAR"} : IsRefusal(m, code, a)

\* Every answer is an error code, or carries what the requests obtained.
LEMMA EveryAnswerIs ==
    ASSUME Types, AnswersInv, NEW k \in DOMAIN answers
    PROVE  /\ log # <<>> /\ log[Len(log)].request \in Requests
           /\ \/ \E code \in {"SME", "IAR"} : IsRefusal(Handled, code, answers[k])
              \/ /\ Trusted(log[Len(log)].request) /\ EpsemOf(Handled).valid
                 /\ \E isRegistered \in BOOLEAN :
                       CarriesOrRefuses(Handled, DoneOf(Handled, isRegistered), answers[k])
<1> DEFINE last == log[Len(log)]
           m == Handled
<1>1. log # <<>>
    <2>1. DOMAIN <<>> = {}
        OBVIOUS
    <2> QED
        BY <2>1 DEF AnswersInv
<1>2. last.request \in Requests
    <2>1. log \in Seq(LogEntry)
        BY DEF Types
    <2>2. Len(log) \in DOMAIN log
        BY <1>1, <2>1
    <2>3. last \in LogEntry
        BY <2>1, <2>2
    <2> QED
        BY <2>3 DEF LogEntry
<1>3. Given(last.request, last.outcome, answers) /\ m = Request(last.request)
    BY <1>1 DEF AnswersInv, Handled, Asked
<1>4. \A a : answers = <<a>> => answers[k] = a
    OBVIOUS
<1>5. \A a, b : answers = <<a, b>> => answers[k] \in {a, b}
    OBVIOUS
<1>6. answers # <<>>
    <2>1. DOMAIN <<>> = {}
        OBVIOUS
    <2> QED
        BY <2>1
<1> HIDE DEF last, m
<1>7. ASSUME NEW code, \E a : answers = <<a>> /\ IsRefusal(m, code, a)
      PROVE  IsRefusal(m, code, answers[k])
    BY <1>4, <1>7
<1>8. ASSUME Refused(m, {"RSTL", "IAR"}, answers)
      PROVE  \E code \in {"RSTL", "IAR"} : IsRefusal(m, code, answers[k])
    BY <1>4, <1>5, <1>8 DEF Refused
<1>9. CASE last.outcome = "refused"
    <2>1. \E a : answers = <<a>> /\ IsRefusal(m, "SME", a)
        BY <1>3, <1>9 DEF Given
    <2> QED
        BY <1>1, <1>2, <1>7, <2>1 DEF last, m
<1>10. CASE last.outcome = "executed"
    <2>1. Trusted(last.request) /\ ExecutedAs(m, answers)
        BY <1>3, <1>10 DEF Given
    <2>2. CASE \E a : answers = <<a>> /\ IsRefusal(m, "IAR", a)
        BY <1>1, <1>2, <1>7, <2>2 DEF last, m
    <2>3. ASSUME ~IsResponse(m), EpsemOf(m).valid, NEW isRegistered \in BOOLEAN,
                 Served(m, DoneOf(m, isRegistered), answers)
          PROVE  CarriesOrRefuses(m, DoneOf(m, isRegistered), answers[k])
        BY <1>4, <1>6, <1>8, <2>3 DEF Served, Answered1, CarriesOrRefuses
    <2>4. CASE /\ ~IsResponse(m) /\ EpsemOf(m).valid
               /\ \E isRegistered \in BOOLEAN : Served(m, DoneOf(m, isRegistered), answers)
        BY <1>1, <1>2, <2>1, <2>3, <2>4 DEF last, m
    <2> QED
        BY <1>6, <2>1, <2>2, <2>4 DEF ExecutedAs
<1>11. last.outcome # "dropped"
    BY <1>3, <1>6 DEF Given
<1> QED
    BY <1>3, <1>9, <1>10, <1>11 DEF Given

\* The caller's own stack accepts every answer: it takes it to be of the standard of
\* the request, opens it with the request's key, and finds its title and the id of its
\* request in it, and an id that is not 0 (BuildResponse and MakeSimpleResponseMessage
\* against TLMessageReceived).
THEOREM ServerAnswersAreRead == Spec => []AnswersAreRead
<1>1. Inv /\ AnswersInv => AnswersAreRead
    BY EveryAnswerIs DEF Inv, AnswersAreRead, ForAnswers, CarriesOrRefuses, IsRefusal, IsAnswer
<1> QED
    BY <1>1, ServerInvariant, AnswersAreKept, PTL

\* What a request obtained is sent as the request was, encrypted or authenticated,
\* and never in plain text if the device asks for more.
THEOREM ServerDataIsProtected == Spec => []DataIsProtected
<1>1. ASSUME Types, AnswersInv, NEW k \in DOMAIN answers PROVE IsProtectedAs(Handled, answers[k])
    <2>1. ASSUME NEW code \in {"SME", "IAR", "RSTL"}, IsRefusal(Handled, code, answers[k])
          PROVE  IsProtectedAs(Handled, answers[k])
        BY <2>1 DEF IsRefusal, IsProtectedAs
    <2>2. ASSUME Trusted(log[Len(log)].request), ProtectedAs(Handled, answers[k])
          PROVE  IsProtectedAs(Handled, answers[k])
        <3>1. requireEncryption /\ Keys # {} => IsEncryptedOrAuthenticated(Handled)
            BY <2>2 DEF Trusted, MustBeSecured, Handled, Asked
        <3>2. IsEncryptedOrAuthenticated(Handled) => IsEncryptedOrAuthenticated(answers[k])
            BY <2>2 DEF ProtectedAs, IsEncrypted, IsAuthenticated
        <3> QED
            BY <2>2, <3>1, <3>2 DEF ProtectedAs, IsProtectedAs
    <2> QED
        BY <1>1, <2>1, <2>2, EveryAnswerIs DEF CarriesOrRefuses, IsAnswer
<1>2. Inv /\ AnswersInv => DataIsProtected
    BY <1>1 DEF Inv, DataIsProtected, ForAnswers
<1> QED
    BY <1>2, ServerInvariant, AnswersAreKept, PTL

\* The responses to a message are within the 515 bytes if its identifications leave
\* them there, and an exception among them is told.
LEMMA DoneHasRoom ==
    ASSUME NEW r \in Understood, EpsemOf(Request(r)).valid,
           NEW isRegistered \in BOOLEAN,
           NEW done, done = DoneOf(Request(r), isRegistered)
    PROVE  /\ Progress(EpsemOf(Request(r)).items, Len(EpsemOf(Request(r)).items), done)
           /\ HasRoom(Request(r)) => done.length <= MaxEpsemLength - 1
<1> DEFINE items == EpsemOf(Request(r)).items
<1>1. items \in Items
    BY UnderstoodIsAnswerable
<1>2. HasRoom(Request(r)) => IdentHasRoom(items)
    BY DEF HasRoom, EpsemOf
<1> QED
    BY <1>1, <1>2, ResponsesAre DEF DoneOf

\* An answer with a response that tells of a failure does not say OK throughout.
LEMMA ResponseCodes ==
    ASSUME NEW done \in Work, NEW a, AnswerItems(a) = done.items
    PROVE  /\ AnswerCodes(a) \subseteq Codes
           /\ Tells(done.items) => AnswerCodes(a) # {"OK"}
<1>1. done.items \in Seq(Responses)
    BY WorkFields
<1>2. AnswerCodes(a) = {done.items[i].code : i \in 1..Len(done.items)}
    <2>1. DOMAIN done.items = 1..Len(done.items)
        BY <1>1
    <2> QED
        BY <2>1 DEF AnswerCodes
<1>3. \A i \in 1..Len(done.items) : done.items[i].code \in Codes
    <2>1. \A i \in 1..Len(done.items) : done.items[i] \in Responses
        BY <1>1
    <2> QED
        BY <2>1 DEF Responses
<1> QED
    BY <1>2, <1>3 DEF Tells

\* Only an identification makes an answer too large: whatever else is asked for, and
\* for identifications that leave the responses within their 515 bytes, every answer is
\* within its buffers (ProcessEpsemRequests, ACSE_Message_SetUserInformation).
THEOREM ServerAnswersFit == Spec => []AnswersFit
<1>1. ASSUME Types, AnswersInv, HasRoom(Handled), NEW k \in DOMAIN answers
      PROVE  Fits(Handled, answers[k])
    <2> DEFINE a == answers[k]
               r == log[Len(log)].request
    <2>1. ASSUME NEW code \in {"SME", "IAR"}, IsRefusal(Handled, code, a)
          PROVE  Fits(Handled, a)
        BY <2>1 DEF IsRefusal, Fits, TakesNoMore
    <2>2. ASSUME Trusted(r), EpsemOf(Handled).valid, NEW isRegistered \in BOOLEAN,
                 CarriesOrRefuses(Handled, DoneOf(Handled, isRegistered), a)
          PROVE  Fits(Handled, a)
        <3> DEFINE done == DoneOf(Handled, isRegistered)
        <3>1. r \in Understood /\ Handled = Request(r)
            BY <2>2 DEF Trusted, Secure, Handled, Asked
        <3>2. done.length <= MaxEpsemLength - 1 /\ done \in Work /\ done.length = ItemsLength(done.items)
            BY <1>1, <2>2, <3>1, DoneHasRoom DEF Progress
        <3>3. TakesNoMore(a) /\ AnswerItems(a) = done.items
            BY <2>2, <3>2 DEF CarriesOrRefuses, IsAnswer
        <3> HIDE DEF done, a
        <3>4. "RSTL" \notin AnswerCodes(a)
            BY <3>2, <3>3, ResponseCodes DEF Codes
        <3>5. ItemsLength(done.items) + 1 <= MaxEpsemLength
            <4>1. done.length \in Nat
                BY <3>2, WorkFields
            <4> QED
                BY <3>2, <4>1 DEF MaxEpsemLength
        <3> QED
            BY <3>3, <3>4, <3>5 DEF Fits, TakesNoMore
    <2> QED
        BY <1>1, <2>1, <2>2, EveryAnswerIs
<1>2. Inv /\ AnswersInv => AnswersFit
    BY <1>1 DEF Inv, AnswersFit, ForAnswers
<1> QED
    BY <1>2, ServerInvariant, AnswersAreKept, PTL

\* A message gets the answer its epsem asks for: an exception is told, and a code left
\* from an earlier request is never sent, but after an answer that an identification made
\* too large (C1222Server_ProcessMessage).
THEOREM ServerOneAnswer == Spec => []OneAnswer
<1>1. ASSUME Types, AnswersInv, log # <<>>, Executed(Len(log)) PROVE OneAnswer
    <2> DEFINE r == log[Len(log)].request
               m == Handled
               e == EpsemOf(m)
               IsOneAnswer ==
                   /\ Len(answers) \in {0, 1, 2}
                   /\ HasRoom(m) => Len(answers) \in {0, 1}
                   /\ e.control = "always" => Len(answers) \in {1, 2}
                   /\ e.control = "never" => Len(answers) = 0
                   /\ e.control \notin {"always", "never"} /\ Len(answers) # 0 =>
                         TellsException(e, answers[1])
    <2>1. Trusted(r) /\ ExecutedAs(m, answers) /\ m = Request(r) /\ r \in Understood
        BY <1>1 DEF AnswersInv, Given, Executed, Handled, Asked, Trusted, Secure
    <2>2. e = Find(m, "BE").value.epsem
        BY DEF EpsemOf
    <2>3. SUFFICES /\ IsResponse(m) => Len(answers) = 0
                   /\ ~IsResponse(m) /\ ~e.valid => Len(answers) = 1
                   /\ ~IsResponse(m) /\ e.valid => IsOneAnswer
        <3>1. \A n \in {0, 1, 2} : /\ n \in {0, 1} => n <= 1
                                   /\ n \in {1, 2} => n >= 1
                                   /\ n >= 1 => n # 0
            OBVIOUS
        <3>2. \/ e.control = "always" \/ e.control = "never"
              \/ e.control \notin {"always", "never"}
            OBVIOUS
        <3> HIDE DEF m
        <3>3. OneAnswer = (log # <<>> /\ Executed(Len(log)) =>
                 /\ HasRoom(m) => Len(answers) <= 1
                 /\ IsResponse(m) => Len(answers) = 0
                 /\ ~IsResponse(m) /\ e.valid =>
                       CASE e.control = "always" -> Len(answers) >= 1
                         [] e.control = "never" -> Len(answers) = 0
                         [] OTHER -> Len(answers) >= 1 => TellsException(e, answers[1]))
            BY <2>2 DEF OneAnswer, m
        <3> HIDE DEF e
        <3>4. ASSUME IsResponse(m) \/ ~e.valid PROVE HasRoom(m) => Len(answers) <= 1
            BY <2>3, <3>1, <3>4
        <3>5. ASSUME ~IsResponse(m), e.valid PROVE OneAnswer
            BY <2>3, <3>1, <3>2, <3>3, <3>5
        <3> QED
            BY <2>3, <3>3, <3>4, <3>5
    <2>4. Len(<<>>) = 0 /\ \A a : Len(<<a>>) = 1 /\ <<a>>[1] = a
        OBVIOUS
    <2>5. \A a, b : Len(<<a, b>>) = 2 /\ <<a, b>>[1] = a
        OBVIOUS
    <2> HIDE DEF r, m
    <2>6. CASE IsResponse(m) /\ answers = <<>>
        BY <2>4, <2>6
    <2>7. CASE ~IsResponse(m) /\ ~e.valid /\ \E a : answers = <<a>>
        BY <2>4, <2>7
    <2>8. ASSUME ~IsResponse(m), e.valid, NEW isRegistered \in BOOLEAN,
                 Served(m, DoneOf(m, isRegistered), answers)
          PROVE  IsOneAnswer
        <3> DEFINE done == DoneOf(m, isRegistered)
                   c == Cardinality(Answered(e.items, Len(e.items)))
        <3>1. /\ done \in Work
              /\ HasRoom(m) => done.length <= MaxEpsemLength - 1
              /\ done.error => Tells(done.items) \/ Len(done.items) < c
            BY <2>1, <2>8, DoneHasRoom DEF Progress
        <3>2. /\ e.control = "always" => WantsAnswer(m, done)
              /\ e.control = "never" => ~WantsAnswer(m, done)
              /\ e.control \notin {"always", "never"} /\ WantsAnswer(m, done) => done.error
            BY DEF WantsAnswer, EpsemOf
        <3>3. c = Cardinality({i \in DOMAIN e.items : e.items[i].command # "response"})
            <4>1. e.items \in Items
                BY <2>1, <2>8, UnderstoodIsAnswerable
            <4>2. DOMAIN e.items = 1..Len(e.items)
                BY <4>1 DEF Items
            <4> QED
                BY <4>2 DEF Answered
        <3> HIDE DEF done, c, e
        <3>4. CASE ~WantsAnswer(m, done) /\ answers = <<>>
            BY <2>4, <3>2, <3>4
        <3>5. ASSUME WantsAnswer(m, done), NEW a, answers = <<a>>, IsAnswer(m, done, a)
              PROVE  IsOneAnswer
            <4>1. AnswerItems(a) = done.items
                BY <3>5 DEF IsAnswer
            <4>2. done.error => TellsException(e, a)
                BY <3>1, <3>3, <4>1, ResponseCodes DEF TellsException
            <4> QED
                BY <2>4, <3>2, <3>5, <4>2
        <3>6. ASSUME WantsAnswer(m, done), Refused(m, {"RSTL", "IAR"}, answers),
                     ~(done.length <= MaxEpsemLength - 1)
              PROVE  IsOneAnswer
            <4>1. ~HasRoom(m)
                BY <3>1, <3>6
            <4>2. \A a, code : code \in {"RSTL", "IAR"} /\ IsRefusal(m, code, a) => TellsException(e, a)
                BY DEF IsRefusal, TellsException
            <4>3. Len(answers) \in {1, 2} /\ TellsException(e, answers[1])
                BY <2>4, <2>5, <3>6, <4>2 DEF Refused
            <4> QED
                BY <3>2, <3>6, <4>1, <4>3
        <3>7. \/ ~WantsAnswer(m, done) /\ answers = <<>>
              \/ /\ WantsAnswer(m, done)
                 /\ \E a : answers = <<a>> /\ IsAnswer(m, done, a)
              \/ /\ WantsAnswer(m, done) /\ Refused(m, {"RSTL", "IAR"}, answers)
                 /\ ~(done.length <= MaxEpsemLength - 1)
            BY <2>8 DEF Served, Answered1, done
        <3> QED
            BY <3>4, <3>5, <3>6, <3>7
    <2> QED
        BY <2>1, <2>6, <2>7, <2>8 DEF ExecutedAs
<1>2. Inv /\ AnswersInv => OneAnswer
    BY <1>1 DEF Inv, OneAnswer
<1> QED
    BY <1>2, ServerInvariant, AnswersAreKept, PTL

=============================================================================
