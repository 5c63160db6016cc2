--------------------------- MODULE BackfillProgress ---------------------------
(***************************************************************************)
(* What the backfill checkpoint promises, whatever failures, restarts and  *)
(* changes of the configured history start happen: progress is made only   *)
(* over days that are over and were committed, and is given up only for an *)
(* earlier history start.                                                  *)
(***************************************************************************)
EXTENDS Integers

CONSTANT NoDay  \* no history was requested yet

VARIABLES
  yesterday,    \* the latest completed day
  requested,    \* first day of the wanted history
  frontier,     \* first day that progress does not cover
  asked         \* days of exports that were committed

progressVars == <<yesterday, requested, frontier, asked>>

ProgressInit ==
  /\ yesterday \in Nat
  /\ requested = NoDay
  /\ frontier = NoDay
  /\ asked = {}

DayEnds ==
  /\ yesterday' = yesterday + 1
  /\ UNCHANGED <<requested, frontier, asked>>

\* Only days that are over are asked for.
Ask ==
  /\ asked \subseteq asked'
  /\ \A day \in asked' : day \in asked \/ day <= yesterday
  /\ UNCHANGED <<yesterday, requested, frontier>>

Advance ==
  /\ requested # NoDay
  /\ frontier' > frontier
  /\ \A day \in frontier .. frontier' - 1 : day \in asked
  /\ UNCHANGED <<yesterday, requested, asked>>

\* The first request, or one for more history: work begins at its start.
RequestMore ==
  /\ \/ requested = NoDay
     \/ requested' < requested
  /\ requested' <= yesterday + 1
  /\ frontier' = requested'
  /\ UNCHANGED <<yesterday, asked>>

\* A request for less history keeps the progress made.
RequestLess ==
  /\ requested # NoDay
  /\ requested' > requested
  /\ requested' <= yesterday + 1
  /\ frontier' = IF requested' > frontier THEN requested' ELSE frontier
  /\ UNCHANGED <<yesterday, asked>>

ProgressNext == DayEnds \/ Ask \/ Advance \/ RequestMore \/ RequestLess

ProgressSpec == ProgressInit /\ [][ProgressNext]_progressVars

=============================================================================
