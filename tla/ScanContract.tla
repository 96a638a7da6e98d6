---------------------------- MODULE ScanContract ----------------------------
(***************************************************************************)
(* What the scan life cycle promises to a user whatever fails: a scan is   *)
(* started once, it is cancelled only after a stop of it was accepted, a   *)
(* cancellation ends and is not undone, a scan that is over does not wait  *)
(* again, and once deleted it does not come back.  A scan that is over may *)
(* show as running again: its reports may arrive late, and its second      *)
(* stage reports after the first has ended.  ScanLifecycle is shown to     *)
(* implement this.                                                         *)
(***************************************************************************)
CONSTANT Scan

VARIABLES
    phase,     \* per scan: how far it is
    asked      \* the scans whose stop was accepted

Live == {"waiting", "running", "stopping"}
Over == {"COMPLETE", "ERROR", "CANCELLED"}
Existing == Live \cup Over \cup {"deleting"}
Phase == {"new", "gone"} \cup Existing

Init == phase = [s \in Scan |-> "new"] /\ asked = {}

\* The start; a requeue; a stop; a hand-out or a report, unless a stop is
\* being answered; an end, a deletion or its announcement.
Moves ==
    {<<"new", "waiting">>, <<"running", "waiting">>, <<"running", "stopping">>}
    \cup (Existing \ {"stopping"}) \X {"running"}
    \cup Existing \X (Over \cup {"deleting", "gone"})

\* The moves that accept a stop.
StopMoves == {<<"waiting", "CANCELLED">>, <<"running", "stopping">>}

\* Polls, batches of status messages and the periodic jobs move several
\* scans at once.
Next ==
    /\ phase' \in [Scan -> Phase]
    /\ \A s \in Scan : phase'[s] # phase[s] =>
        /\ <<phase[s], phase'[s]>> \in Moves
        /\ phase'[s] \in {"stopping", "CANCELLED"} => s \in asked'
    /\ asked \subseteq asked'
    /\ \A s \in asked' \ asked : <<phase[s], phase'[s]>> \in StopMoves

Spec == Init /\ [][Next]_<<phase, asked>>

=============================================================================
