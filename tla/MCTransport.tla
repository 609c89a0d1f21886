----------------------------- MODULE MCTransport -----------------------------
(***************************************************************************)
(* The instance of Transport that TLC checks.                              *)
(***************************************************************************)
EXTENDS Transport

CONSTANTS device, module

MCRequests == {Control("reset"), Control("reload"), GetStatus}
MCRestarts == {"reset", "powerUp", "reboot"}
=============================================================================
