-------------------------- MODULE DiscoveryLifecycle --------------------------
(* How DiscoveryRun reads as RunLifecycle.                                   *)
EXTENDS DiscoveryRun

(* A run as its starter sees it.                                           *)
PhaseOf(m) == IF m.next = "absent" THEN "none"
              ELSE IF m.next \in {"finalize", "END"} THEN "settled"
              ELSE IF m.asked # {} THEN "asking"
              ELSE "searching"

(* Where the lists of a checkpoint put a job.                              *)
Routes(m, j) == {m.routed[i] : i \in {k \in DOMAIN m.routed : m.scored[k].job = j}}

OutcomeOf(m) == [j \in Job |-> IF Routes(m, j) = {} THEN "none"
                               ELSE CHOOSE route \in Routes(m, j) : TRUE]

RowOf(record) ==
  [status               |-> record.status,
   queued               |-> record.metrics.queued,
   rejected             |-> record.metrics.rejected,
   human_review_pending |-> record.metrics.human_review_pending]

Phase   == [r \in Run |-> PhaseOf(thread[r])]
Outcome == [r \in Run |-> OutcomeOf(thread[r])]
Row     == [r \in Run |-> RowOf(runRow[r])]

Lifecycle == INSTANCE RunLifecycle WITH
               phase <- Phase, asked <- shown, given <- said, outcome <- Outcome, row <- Row

(* The runs of DiscoveryRun behave as RunLifecycle allows: one question,   *)
(* one answer, what was said is done and reported (service.py, nodes.py).  *)
ImplementsRunLifecycle == Lifecycle!Spec
=============================================================================
