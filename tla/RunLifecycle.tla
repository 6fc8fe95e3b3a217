----------------------------- MODULE RunLifecycle -----------------------------
(***************************************************************************)
(* What a discovery run promises who starts it and who answers it, without *)
(* calls, checkpoints, nodes or lists: it asks at most once, about some    *)
(* jobs; an answer is to a question the tables show; what it makes of the  *)
(* jobs is what was said, nothing is left for review that was not asked    *)
(* about; and it reports once how many jobs went where.                    *)
(***************************************************************************)
EXTENDS FiniteSets, Naturals

CONSTANTS Run, Job

VARIABLES
  phase,     \* how far a run is
  asked,     \* the jobs runs asked about, as <<run, job>>
  given,     \* the decisions they were sent, as <<run, job, choice>>
  outcome,   \* where each job went, "none" if nowhere
  row        \* what its row shows

vars == <<phase, asked, given, outcome, row>>

Choices      == {"queue", "reject"}
Destinations == {"none", "queue", "reject", "human_review"}

NoReport == [status |-> "absent", queued |-> 0, rejected |-> 0, human_review_pending |-> 0]

Start(r) ==
  /\ phase[r] = "none"
  /\ phase' = [phase EXCEPT ![r] = "searching"]
  /\ UNCHANGED <<asked, given, outcome, row>>

Ask(r) ==
  /\ phase[r] = "searching"
  /\ phase' = [phase EXCEPT ![r] = "asking"]
  /\ \E jobs \in (SUBSET Job) \ {{}} : asked' = asked \cup {<<r, j>> : j \in jobs}
  /\ UNCHANGED <<given, outcome, row>>

ShowQuestion(r) ==
  /\ phase[r] = "asking"
  /\ row' = [row EXCEPT ![r].status = "waiting_human"]
  /\ UNCHANGED <<phase, asked, given, outcome>>

Answered(r) == \E j \in Job, choice \in Choices : <<r, j, choice>> \in given

(* One answer, about some of the jobs it asked about.                      *)
Answer(r) ==
  /\ phase[r] = "asking"
  /\ row[r].status = "waiting_human"
  /\ ~Answered(r)
  /\ \E jobs \in (SUBSET {j \in Job : <<r, j>> \in asked}) \ {{}} :
       \E decisions \in [jobs -> Choices] :
         given' = given \cup {<<r, j, decisions[j]>> : j \in jobs}
  /\ UNCHANGED <<phase, asked, outcome, row>>

(* A job that was asked about goes where the answer says, or waits.        *)
Follows(r, destination) ==
  \A j \in Job :
    /\ \A choice \in Choices : <<r, j, choice>> \in given => destination[j] = choice
    /\ destination[j] = "human_review" <=>
         <<r, j>> \in asked /\ \A choice \in Choices : <<r, j, choice>> \notin given

Settle(r) ==
  /\ \/ phase[r] = "searching"
     \/ phase[r] = "asking" /\ Answered(r)
  /\ phase' = [phase EXCEPT ![r] = "settled"]
  /\ \E destination \in [Job -> Destinations] :
       Follows(r, destination) /\ outcome' = [outcome EXCEPT ![r] = destination]
  /\ UNCHANGED <<asked, given, row>>

Went(r, destination) == Cardinality({j \in Job : outcome[r][j] = destination})

Report(r) ==
  /\ phase[r] = "settled"
  /\ row[r].status # "completed"
  /\ row' = [row EXCEPT ![r] = [status               |-> "completed",
                                queued               |-> Went(r, "queue"),
                                rejected             |-> Went(r, "reject"),
                                human_review_pending |-> Went(r, "human_review")]]
  /\ UNCHANGED <<phase, asked, given, outcome>>

Init ==
  /\ phase   = [r \in Run |-> "none"]
  /\ asked   = {}
  /\ given   = {}
  /\ outcome = [r \in Run |-> [j \in Job |-> "none"]]
  /\ row     = [r \in Run |-> NoReport]

Next ==
  \E r \in Run : Start(r) \/ Ask(r) \/ ShowQuestion(r) \/ Answer(r) \/ Settle(r) \/ Report(r)

Spec == Init /\ [][Next]_vars
=============================================================================
