-------------------------- MODULE MCCollectorStart --------------------------
(* TLC instances of CollectorStart. *)
EXTENDS CollectorStart
=============================================================================
