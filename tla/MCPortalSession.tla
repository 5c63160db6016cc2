-------------------------- MODULE MCPortalSession --------------------------
(* TLC instances of PortalSession: our point and meter, and another's. *)
EXTENDS PortalSession
CONSTANTS e1, e2, m1, m2

MCOwner == [meter \in {m1, m2} |-> IF meter = m1 THEN e1 ELSE e2]
=============================================================================
