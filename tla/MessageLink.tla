----------------------------- MODULE MessageLink -----------------------------
(***************************************************************************)
(* What two transports want of the data link between them: a message is    *)
(* received once and in order, and its sender is told so only after that.  *)
(* An end sends its next message when it knows of the last.                *)
(***************************************************************************)
EXTENDS Naturals, Sequences

CONSTANTS Ends, Peer(_)

VARIABLES
    sent,      \* for each end, how many messages it has sent
    received,  \* the numbers of the peer's messages it received, in order
    told       \* the numbers of its messages it was told are received

Init ==
    /\ sent = [e \in Ends |-> 0]
    /\ received = [e \in Ends |-> <<>>]
    /\ told = [e \in Ends |-> {}]

Send(e) ==
    /\ sent[e] = 0 \/ sent[e] \in told[e]
    /\ sent' = [sent EXCEPT ![e] = @ + 1]
    /\ UNCHANGED <<received, told>>

Deliver(e) ==
    /\ Len(received[e]) < sent[Peer(e)]
    /\ received' = [received EXCEPT ![e] = Append(@, sent[Peer(e)])]
    /\ UNCHANGED <<sent, told>>

Confirm(e) ==
    /\ Len(received[Peer(e)]) = sent[e]
    /\ told' = [told EXCEPT ![e] = @ \cup {sent[e]}]
    /\ UNCHANGED <<sent, received>>

Next == \E e \in Ends : Send(e) \/ Deliver(e) \/ Confirm(e)

Spec == Init /\ [][Next]_<<sent, received, told>>

=============================================================================
