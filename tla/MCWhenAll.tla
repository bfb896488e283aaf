------------------------------ MODULE MCWhenAll ------------------------------
(* The instance of WhenAll that TLC checks. *)
EXTENDS WhenAll
=============================================================================
