---------------------------- MODULE MCReceivePath ----------------------------
(***************************************************************************)
(* A small device: messages of at most four bytes, two entries in the table *)
(* of disjoint segments, two peers, and one message of each kind.           *)
(***************************************************************************)
EXTENDS ReceivePath

CONSTANTS n1, n2

Sent(fullLength, sequence, title, segmented, from, protection, answersRegistration) ==
    [fullLength          |-> fullLength,
     sequence            |-> sequence,
     callingApTitle      |-> title,
     segmented           |-> segmented,
     from                |-> from,
     protection          |-> protection,
     answersRegistration |-> answersRegistration]

\* Two segmented messages that differ in the sequence only, a secured and a
\* plain one; a whole message that fails its check, a whole plain one, a message
\* that is too large, and an answer to the registration request.
Long      == Sent(4, 1, "title", TRUE,  n1, "plain",   FALSE)
Secret    == Sent(3, 2, "title", TRUE,  n2, "valid",   FALSE)
Short     == Sent(1, 3, "title", FALSE, n2, "plain",   FALSE)
Forged    == Sent(2, 4, "title", FALSE, n1, "invalid", FALSE)
Oversized == Sent(5, 5, "title", TRUE,  n2, "plain",   FALSE)
Granted   == Sent(1, 6, "relay", FALSE, n2, "plain",   TRUE)

MCMessages   == {Long, Secret, Short, Forged, Oversized, Granted}
MCOwnRequest == Sent(2, 0, "none", FALSE, NoNode, "plain", FALSE)
MCPositions  == 0..4

\* For the runs about the reentrant stack: the messages are as short as they
\* can be and come from one peer, so that the waits and the flags make up the
\* state space.
Pair       == Sent(2, 1, "title", TRUE,  n1, "valid", FALSE)
Brief      == Sent(1, 3, "title", FALSE, n1, "plain", FALSE)
MCNested   == {Pair, Brief, Forged}
MCBrief    == 0..2

=============================================================================
