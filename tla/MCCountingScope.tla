--------------------------- MODULE MCCountingScope ---------------------------
(* The instance of CountingScope that TLC checks. *)
EXTENDS CountingScope
=============================================================================
