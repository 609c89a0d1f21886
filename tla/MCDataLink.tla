----------------------------- MODULE MCDataLink -----------------------------
(***************************************************************************)
(* A device and its communication module, and messages of up to three      *)
(* packets.                                                                *)
(***************************************************************************)
EXTENDS DataLink

CONSTANTS device, module

Short     == [id |-> "short", packets |-> 1, oneTry |-> FALSE]
Long      == [id |-> "long", packets |-> 2, oneTry |-> FALSE]
Longer    == [id |-> "longer", packets |-> 3, oneTry |-> FALSE]
Request   == [id |-> "request", packets |-> 1, oneTry |-> TRUE]
KeepAlive == [id |-> "keepAlive", packets |-> 0, oneTry |-> TRUE]

MCRetried == {Short, Long}
MCAll == {Short, Long, Request, KeepAlive}
MCLonger == {Longer, [Longer EXCEPT !.id = "other"]}

=============================================================================
