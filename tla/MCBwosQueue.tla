---------------------------- MODULE MCBwosQueue ----------------------------
(* Two blocks of two items, which seven items fill and reuse, two thieves. *)
EXTENDS BwosQueue
=============================================================================
