--------------------------- MODULE MCEventService ---------------------------
(* TLC instances of EventService. *)
EXTENDS EventService, TLC
CONSTANTS c1, c2, c3, c4, sync, pairing

Symmetry == Permutations(Subscribers)
=============================================================================
