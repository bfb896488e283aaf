----------------------------- MODULE MCStopToken -----------------------------
(* The instance of StopToken that TLC checks. *)
EXTENDS StopToken
=============================================================================
