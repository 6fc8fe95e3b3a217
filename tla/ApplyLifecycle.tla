---------------------------- MODULE ApplyLifecycle ----------------------------
(* How the applications table of ApplyFlow reads as ApplicationLifecycle.    *)
EXTENDS ApplyFlow

(* A row as its readers see it.                                            *)
PhaseOf(r) == IF r.status \in {"absent"} \cup Outcomes THEN r.status
              ELSE IF r.reason = "none" THEN "opened" ELSE r.reason

Phase == [a \in App |-> PhaseOf(row[a])]

Lifecycle == INSTANCE ApplicationLifecycle WITH
               job   <- [a \in App |-> row[a].job],
               phase <- Phase

(* The applications table of ApplyFlow behaves as ApplicationLifecycle     *)
(* allows: the handlers of apply_service.py implement the abstract rows.   *)
ImplementsLifecycle == Lifecycle!Spec
=============================================================================
