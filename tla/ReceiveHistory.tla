---------------------------- MODULE ReceiveHistory ----------------------------
(***************************************************************************)
(* The receive history of c1222al_receiveHistory.c: a ring of the requests  *)
(* received lately, by calling ApTitle and invocation id.                   *)
(***************************************************************************)
EXTENDS AcseFormat

CONSTANTS
    HistorySize,        \* the entries of the ring (5)
    HistoryLifetime     \* how long an entry counts (120 s, in ticks)

ASSUME HistoryAssumption == HistorySize \in Nat \ {0} /\ HistoryLifetime \in Nat

Empty == [receptionTime |-> 0, sequence |-> 0, callingApTitle |-> None]

\* C1222ALReceiveHistory_Init.
NoHistory == [addIndex |-> 1, history |-> [ii \in 1..HistorySize |-> Empty]]

-----------------------------------------------------------------------------
ValidCallingApTitle(m) ==
    IF HasTag(m, "A6") /\ Validate(CallingApTitle(m), m.standard) THEN CallingApTitle(m) ELSE None

\* MessageIsReadOfRFLANFactoryDataOrUpdateVendorField: the first request.
FactoryRequests == {"read factory data", "write vendor field"}

IsFactoryRequest(m) ==
    LET epsem == Find(m, "BE").value.epsem
    IN  epsem.valid /\ epsem.items # <<>> /\ epsem.items[1].command \in FactoryRequests

\* What the communication module sends is never a duplicate, and is not noted.
\* This node's title is `mine`, Unset if it has none.
IsExempt(m, mine) ==
    LET title == ValidCallingApTitle(m)
    IN  IF title = None THEN IsFactoryRequest(m)
        ELSE \/ mine # Unset /\ IsApTitleMyCommModule(title, mine)
             \/ title = Relative("0d", <<1>>)

-----------------------------------------------------------------------------
\* A mutation of Maintained: entries do not expire.
Kept(e, now) == e

\* An entry is zeroed when it has expired.
Maintained(e, now) ==
    IF e.receptionTime # 0 /\ now - e.receptionTime > HistoryLifetime THEN Empty ELSE e

Matches(e, sequence, title) ==
    /\ e.sequence = sequence
    /\ \/ title = None /\ e.callingApTitle = None
       \/ title # None /\ e.callingApTitle # None /\ SameTitle(title, e.callingApTitle)

\* An entry in use is compared after it was zeroed.
Hits(h, m, now) ==
    {ii \in 1..HistorySize :
        /\ h.history[ii].receptionTime # 0
        /\ Matches(Maintained(h.history[ii], now), CallingApInvocationId(m), ValidCallingApTitle(m))}

\* The result of C1222ALReceiveHistory_IsMessageAlreadyReceived.
IsMessageAlreadyReceived(h, m, now, mine) ==
    ~IsExempt(m, mine) /\ Hits(h, m, now) # {}

\* The loop stops at the first hit.
Visited(h, m, now) == {ii \in 1..HistorySize : \A jj \in Hits(h, m, now) : ii <= jj}

Swept(h, m, now) ==
    [h EXCEPT !.history =
        [ii \in 1..HistorySize |-> IF ii \in Visited(h, m, now) THEN Maintained(@[ii], now) ELSE @[ii]]]

\* A mutation of Added: the ring never wraps, the last entry is used again.
LastSlotIsReused(h, m, now) ==
    [addIndex |-> IF h.addIndex < HistorySize THEN h.addIndex + 1 ELSE HistorySize,
     history  |-> [h.history EXCEPT ![h.addIndex] =
                      [receptionTime  |-> IF now = 0 THEN 1 ELSE now,
                       sequence       |-> CallingApInvocationId(m),
                       callingApTitle |-> ValidCallingApTitle(m)]]]

Added(h, m, now) ==
    [addIndex |-> (h.addIndex % HistorySize) + 1,
     history  |-> [h.history EXCEPT ![h.addIndex] =
                      [receptionTime  |-> IF now = 0 THEN 1 ELSE now,
                       sequence       |-> CallingApInvocationId(m),
                       callingApTitle |-> ValidCallingApTitle(m)]]]

\* The history after the call.
NextHistory(h, m, now, mine) ==
    IF IsExempt(m, mine) THEN h
    ELSE IF Hits(h, m, now) # {} THEN Swept(h, m, now)
    ELSE Added(Swept(h, m, now), m, now)

=============================================================================
